---------------------------- MODULE Spec2Model ----------------------------
(***************************************************************************)
(* Model of the command discovery pipeline of MyCLI                        *)
(* (backend/models.py, the backend/discovery package, backend/catalog.py)  *)
(* and of its quick-command store (backend/quick_commands.py).             *)
(*                                                                         *)
(* Python strings are sequences of symbols.  A symbol is a TLA+ string:    *)
(* a single character where the code looks inside a string (raw commands), *)
(* a whole word where it only compares, joins or splits at "/" (path       *)
(* segments, task names).  Python values whose type varies are tagged      *)
(* records [t |-> <type>, v |-> <value>].  A dict is a record over its     *)
(* known keys whose missing keys hold Absent.                              *)
(***************************************************************************)
EXTENDS Integers, Sequences, FiniteSets, TLC

VARIABLES
    raw_cmd,      \* _extract_parameters: its argument
    params,       \* _extract_parameters: its outcome (Pending until called)
    pd_args,      \* ParameterDefinition(...): the keyword arguments
    pd_result,    \* ParameterDefinition(...): its outcome (Pending until called)
    artifacts,    \* filter_by_confidence: its first argument
    threshold,    \* filter_by_confidence: its second argument (Absent: default)
    kept,         \* filter_by_confidence: its outcome (Pending until called)
    defs,         \* the CommandDefinitions built by CommandDefinition.create
    tree,         \* DiscoveryEngine.run: the project tree under project_root
    plugins,      \* DiscoveryEngine._plugins (the plugins' names)
    pc,           \* run: the phase it is in
    at,           \* run: the index of the plugin the phase's loop is at
    collected,    \* run: the local collected
    enriched,     \* run: the local enriched
    filtered,     \* run: the local filtered
    result,       \* run: its outcome (Pending until it returns or raises)
    engine_kw,    \* DiscoveryEngine(plugins, ...): what the caller passes besides
    history,      \* the runs this engine completed before the current one
    norm_artifacts, \* normalize_artifacts: its argument
    norm_result,  \* normalize_artifacts: its outcome (Pending until called)
    projects,     \* state.projects: the registered project keys
    wrapper,      \* the wrapper directory: writable?, and its catalog file
    calls,        \* the catalog calls made so far, each with what it returned
    trace,        \* run: the phase steps it has taken so far, in order
    quick_file,   \* QUICK_COMMANDS_FILE: Absent, or the text it holds
    quick_calls   \* the quick-command calls made so far, each with its outcome

pureVars ==
    <<raw_cmd, params, pd_args, pd_result, artifacts, threshold, kept, defs>>
runVars == <<tree, plugins, pc, at, collected, enriched, filtered, result>>
moreVars ==
    <<engine_kw, history, norm_artifacts, norm_result, projects, wrapper, calls>>
quickVars == <<quick_file, quick_calls>>
vars == <<pureVars, runVars, moreVars, trace, quickVars>>

-----------------------------------------------------------------------------
(* Python values *)

PyNone == [t |-> "NoneType"]
PyStr(s) == [t |-> "str", v |-> s]
PyBool(b) == [t |-> "bool", v |-> b]
PyInt(n) == [t |-> "int", v |-> n]
PyFloat(n) == [t |-> "float", v |-> n]
PyList(l) == [t |-> "list", v |-> l]
\* a dict as the sequence of its items [k |-> key, v |-> value], in order
PyDict(items) == [t |-> "dict", items |-> items]
\* a datetime.date, as yaml.safe_load gives for an unquoted date
PyDate == [t |-> "date"]
Absent == [t |-> "absent"]
Pending == [t |-> "pending"]
Idle == [t |-> "idle"]

\* bool(x)
Truthy(x) ==
    CASE x.t = "NoneType" -> FALSE
      [] x.t = "str" -> Len(x.v) > 0
      [] x.t = "bool" -> x.v
      [] x.t = "int" -> x.v # 0
      [] x.t = "float" -> x.v # 0
      [] x.t = "list" -> Len(x.v) > 0
      [] x.t = "dict" -> Len(x.items) > 0
      [] OTHER -> TRUE

\* d.get(key) and d.get(key, default) for a dict d with str keys
DictGet(d, key, default) ==
    IF \E i \in 1..Len(d.items) : d.items[i].k = key
    THEN d.items[CHOOSE i \in 1..Len(d.items) : d.items[i].k = key].v
    ELSE default

\* the outcome of a call: a returned value or a raised exception
Return(x) == [raised |-> FALSE, value |-> x]
Raise(e) == [raised |-> TRUE, exc |-> e]

-----------------------------------------------------------------------------
(* str methods *)

Whitespace == {" ", "\t"}

RECURSIVE LStrip(_)
LStrip(s) ==
    IF Len(s) > 0 /\ Head(s) \in Whitespace THEN LStrip(Tail(s)) ELSE s

RECURSIVE RStrip(_)
RStrip(s) ==
    IF Len(s) > 0 /\ s[Len(s)] \in Whitespace
    THEN RStrip(SubSeq(s, 1, Len(s) - 1))
    ELSE s

\* s.strip()
Strip(s) == RStrip(LStrip(s))

\* s.split(): the maximal runs of non-whitespace symbols, in order
RECURSIVE SplitFrom(_, _, _)
SplitFrom(s, cur, acc) ==
    IF Len(s) = 0
    THEN IF Len(cur) > 0 THEN Append(acc, cur) ELSE acc
    ELSE IF Head(s) \in Whitespace
         THEN SplitFrom(Tail(s), <<>>,
                        IF Len(cur) > 0 THEN Append(acc, cur) ELSE acc)
         ELSE SplitFrom(Tail(s), Append(cur, Head(s)), acc)

Split(s) == SplitFrom(s, <<>>, <<>>)

\* s.startswith(p)
StartsWith(s, p) == Len(s) >= Len(p) /\ SubSeq(s, 1, Len(p)) = p

\* s.endswith(p)
EndsWith(s, p) ==
    Len(s) >= Len(p) /\ SubSeq(s, Len(s) - Len(p) + 1, Len(s)) = p

\* c in s
Contains(s, c) == \E i \in 1..Len(s) : s[i] = c

\* s.index(c), for c in s
IndexOf(s, c) == CHOOSE i \in 1..Len(s) : s[i] = c /\ \A j \in 1..(i-1) : s[j] # c

\* s.replace(a, b) for single symbols a, b
Replace(s, a, b) == [i \in 1..Len(s) |-> IF s[i] = a THEN b ELSE s[i]]

-----------------------------------------------------------------------------
(* backend/models.py: ParameterDefinition *)

ParameterType ==
    {<<"string">>, <<"integer">>, <<"float">>, <<"boolean">>, <<"enum">>,
     <<"path">>}

\* the keyword arguments of ParameterDefinition(...), none given
NoKwargs ==
    [name |-> Absent, type |-> Absent, description |-> Absent,
     required |-> Absent, default |-> Absent, enum |-> Absent,
     min |-> Absent, max |-> Absent, regex |-> Absent, examples |-> Absent,
     meta |-> Absent]

\* a field's value: the argument given, else the Field's default
FieldOr(x, d) == IF x = Absent THEN d ELSE x

\* re.compile(pattern) succeeds: the patterns of the model fail to compile
\* exactly when a group is left open
RegexCompiles(pattern) ==
    Cardinality({i \in 1..Len(pattern) : pattern[i] = "("})
        = Cardinality({i \in 1..Len(pattern) : pattern[i] = ")"})

\* the field declarations: name is a str of min_length 1, type is one of
\* the ParameterType literals (both required fields)
FieldsValid(self) ==
    /\ self.name.t = "str"
    /\ Len(self.name.v) >= 1
    /\ self.type.t = "str"
    /\ self.type.v \in ParameterType

\* @model_validator(mode="after") _validate_constraints: TRUE when it
\* returns self, FALSE when it raises ValueError
\* _validate_constraints testing "if self.enum:" instead of "is not None"
ValidateConstraintsEnumTruthy(self) ==
    /\ (Truthy(self.enum) =>
            self.type.v = <<"enum">> /\ Len(self.enum.v) # 0)
    /\ ~ ( (self.min # PyNone \/ self.max # PyNone)
           /\ self.type.v \notin {<<"integer">>, <<"float">>} )
    /\ (self.regex # PyNone =>
            self.type.v = <<"string">> /\ RegexCompiles(self.regex.v))
    /\ ~ (Truthy(self.required) /\ self.default # PyNone)

ValidateConstraints(self) ==
    /\ (self.enum # PyNone =>
            self.type.v = <<"enum">> /\ Len(self.enum.v) # 0)
    /\ ~ ( (self.min # PyNone \/ self.max # PyNone)
           /\ self.type.v \notin {<<"integer">>, <<"float">>} )
    /\ (self.regex # PyNone =>
            self.type.v = <<"string">> /\ RegexCompiles(self.regex.v))
    /\ ~ (Truthy(self.required) /\ self.default # PyNone)

\* ParameterDefinition(**kw): the validated model, or ValidationError
ParameterDefinition(kw) ==
    LET self == [name |-> kw.name,
                 type |-> kw.type,
                 description |-> FieldOr(kw.description, PyNone),
                 required |-> FieldOr(kw.required, PyBool(FALSE)),
                 default |-> FieldOr(kw.default, PyNone),
                 enum |-> FieldOr(kw.enum, PyNone),
                 min |-> FieldOr(kw.min, PyNone),
                 max |-> FieldOr(kw.max, PyNone),
                 regex |-> FieldOr(kw.regex, PyNone),
                 examples |-> FieldOr(kw.examples, PyNone),
                 meta |-> FieldOr(kw.meta, [positional |-> Absent])]
    IN  IF kw.name = Absent \/ kw.type = Absent THEN Raise("ValidationError")
        ELSE IF ~ FieldsValid(self) THEN Raise("ValidationError")
        ELSE IF ~ ValidateConstraints(self) THEN Raise("ValidationError")
        ELSE Return(self)

-----------------------------------------------------------------------------
(* backend/discovery/normalization.py: _extract_parameters *)

Skip == [emit |-> FALSE]
Emit(key, made) == [emit |-> TRUE, key |-> key, made |-> made]

\* KeyValueToken without the test that the key is not empty
KeyValueTokenAnyKey(body, seen) ==
    LET i == IndexOf(body, "=")
        key == Replace(Strip(SubSeq(body, 1, i - 1)), "-", "_")
        val == SubSeq(body, i + 1, Len(body))
    IN  IF key \notin seen
        THEN Emit(key, ParameterDefinition(
                 [NoKwargs EXCEPT
                    !.name = PyStr(key),
                    !.type = PyStr(<<"string">>),
                    !.required = PyBool(FALSE),
                    !.default = PyStr(val),
                    !.description =
                        PyStr(<<"Flag --">> \o Replace(key, "_", "-")
                              \o <<" value">>)]))
        ELSE Skip

\* "--key=value": a string parameter with default value
KeyValueToken(body, seen) ==
    LET i == IndexOf(body, "=")
        key == Replace(Strip(SubSeq(body, 1, i - 1)), "-", "_")
        val == SubSeq(body, i + 1, Len(body))
    IN  IF Len(key) > 0 /\ key \notin seen
        THEN Emit(key, ParameterDefinition(
                 [NoKwargs EXCEPT
                    !.name = PyStr(key),
                    !.type = PyStr(<<"string">>),
                    !.required = PyBool(FALSE),
                    !.default = PyStr(val),
                    !.description =
                        PyStr(<<"Flag --">> \o Replace(key, "_", "-")
                              \o <<" value">>)]))
        ELSE Skip

\* FlagToken keeping the hyphens of the flag in the parameter name
FlagTokenKeepsHyphens(body, seen) ==
    LET key == Strip(body)
    IN  IF Len(key) > 0 /\ key \notin seen
        THEN Emit(key, ParameterDefinition(
                 [NoKwargs EXCEPT
                    !.name = PyStr(key),
                    !.type = PyStr(<<"boolean">>),
                    !.required = PyBool(FALSE),
                    !.default = PyBool(FALSE),
                    !.description = PyStr(<<"Toggle --">> \o key)]))
        ELSE Skip

\* "--flag": a boolean parameter, default False
FlagToken(body, seen) ==
    LET key == Replace(Strip(body), "-", "_")
    IN  IF Len(key) > 0 /\ key \notin seen
        THEN Emit(key, ParameterDefinition(
                 [NoKwargs EXCEPT
                    !.name = PyStr(key),
                    !.type = PyStr(<<"boolean">>),
                    !.required = PyBool(FALSE),
                    !.default = PyBool(FALSE),
                    !.description =
                        PyStr(<<"Toggle --">> \o Replace(key, "_", "-"))]))
        ELSE Skip

\* PositionalToken without the test "key not in seen"
PositionalTokenIgnoresSeen(tok, seen) ==
    LET key == Replace(Strip(SubSeq(tok, 2, Len(tok) - 1)), "-", "_")
    IN  IF Len(key) > 0
        THEN Emit(key, ParameterDefinition(
                 [NoKwargs EXCEPT
                    !.name = PyStr(key),
                    !.type = PyStr(<<"string">>),
                    !.required = PyBool(TRUE),
                    !.description =
                        PyStr(<<"Positional parameter ">> \o tok),
                    !.meta = [positional |-> PyBool(TRUE)]]))
        ELSE Skip

\* "<name>": a required string positional
PositionalToken(tok, seen) ==
    LET key == Replace(Strip(SubSeq(tok, 2, Len(tok) - 1)), "-", "_")
    IN  IF Len(key) > 0 /\ key \notin seen
        THEN Emit(key, ParameterDefinition(
                 [NoKwargs EXCEPT
                    !.name = PyStr(key),
                    !.type = PyStr(<<"string">>),
                    !.required = PyBool(TRUE),
                    !.description =
                        PyStr(<<"Positional parameter ">> \o tok),
                    !.meta = [positional |-> PyBool(TRUE)]]))
        ELSE Skip

\* the body of the for loop over one token
Token(tok, seen) ==
    IF StartsWith(tok, <<"-", "-">>)
    THEN LET body == SubSeq(tok, 3, Len(tok))
         IN  IF Len(body) = 0 THEN Skip
             ELSE IF Contains(body, "=") THEN KeyValueToken(body, seen)
             ELSE FlagToken(body, seen)
    ELSE IF StartsWith(tok, <<"<">>) /\ EndsWith(tok, <<">">>) /\ Len(tok) > 2
         THEN PositionalToken(tok, seen)
         ELSE Skip

\* the for loop: a ParameterDefinition that fails validation raises out
RECURSIVE TokenLoop(_, _, _)
TokenLoop(tokens, ps, seen) ==
    IF Len(tokens) = 0 THEN Return(ps)
    ELSE LET r == Token(Head(tokens), seen)
         IN  IF ~ r.emit THEN TokenLoop(Tail(tokens), ps, seen)
             ELSE IF r.made.raised THEN r.made
             ELSE TokenLoop(Tail(tokens), Append(ps, r.made.value),
                            seen \cup {r.key})

\* the guard without its isinstance test
GuardOnlyFalsy(raw) == ~ Truthy(raw)

\* the guard of line 23: falsy or non-str input returns []
GuardReturnsEmpty(raw) == ~ Truthy(raw) \/ raw.t # "str"

\* _extract_parameters(raw_cmd); a non-str that passes the guard has no
\* strip method (AttributeError)
ExtractParameters(raw) ==
    IF GuardReturnsEmpty(raw) THEN Return(<<>>)
    ELSE IF raw.t # "str" THEN Raise("AttributeError")
    ELSE TokenLoop(Split(Strip(raw.v)), <<>>, {})

-----------------------------------------------------------------------------
(* backend/models.py: RawArtifact; backend/discovery/confidence.py *)

\* the keys the plugins write into RawArtifact.meta, none present
NoMeta ==
    [task_name |-> Absent, script_name |-> Absent, description |-> Absent,
     origin |-> Absent, raw_cmd |-> Absent, package_manager |-> Absent,
     cwd |-> Absent, tags |-> Absent]

\* RawArtifact(type=..., path=..., content_snippet=..., meta=...,
\* confidence=...)
RawArtifact(type, path, content_snippet, meta, confidence) ==
    [type |-> type, path |-> path, content_snippet |-> content_snippet,
     meta |-> meta, confidence |-> confidence]

\* confidences are counted in hundredths: 0.35 is 35
DEFAULT_CONFIDENCE_THRESHOLD == 35

\* the test of line 20 with > for >=
PassesStrictly(a, t) == a.confidence = PyNone \/ a.confidence.v > t

\* the test of line 20
Passes(a, t) == a.confidence = PyNone \/ a.confidence.v >= t

\* the generator's loop, collected into a list
RECURSIVE FilterLoop(_, _, _)
FilterLoop(as, t, out) ==
    IF Len(as) = 0 THEN out
    ELSE FilterLoop(Tail(as), t,
                    IF Passes(Head(as), t) THEN Append(out, Head(as)) ELSE out)

\* list(filter_by_confidence(artifacts, threshold))
FilterByConfidence(as, t) ==
    FilterLoop(as, IF t = Absent THEN DEFAULT_CONFIDENCE_THRESHOLD ELSE t.v,
               <<>>)

-----------------------------------------------------------------------------
(* backend/models.py: Origin, stable_command_id, CommandDefinition *)

\* the values of the Origin enum
Origin ==
    {"taskfile", "package_script", "python", "powershell", "shell", "docker",
     "langgraph", "template", "other"}

\* the character U+001F (unit separator), as a symbol
US == "US"

\* "\x1f".join(parts)
RECURSIVE Join(_)
Join(parts) ==
    IF Len(parts) = 0 THEN <<>>
    ELSE IF Len(parts) = 1 THEN parts[1]
    ELSE parts[1] \o <<US>> \o Join(Tail(parts))

\* .encode("utf-8"): the symbols the model hashes, each with a 5-bit code
\* (its position in this list)
Encoding ==
    <<US, "/", "taskfile", "package_script", "python", "powershell", "shell",
      "docker", "langgraph", "template", "other", "r", "sub", "Taskfile.yml",
      "package.json", "build", "test", "dev", "lint", "p", "q", "n", "m">>

Encode(c) == CHOOSE i \in 1..Len(Encoding) : Encoding[i] = c

\* hashlib.sha256(...).hexdigest()[:16].  The first 64 bits of the digest
\* are modelled by a 64-bit rotate-and-xor checksum of the encoded symbols:
\* it is a function of the joined string alone and, like SHA-256 on
\* realistic inputs, free of collisions on the strings of the model (up to
\* 12 symbols); collisions of the real truncated digest are not modelled.
DigestBits == 0..63

Rotl5(h) == [i \in DigestBits |-> h[(i + 59) % 64]]

CodeBit(c, i) == IF i < 5 THEN (c \div (2 ^ i)) % 2 ELSE 0

Absorb(h, c) ==
    LET r == Rotl5(h) IN [i \in DigestBits |-> (r[i] + CodeBit(c, i)) % 2]

RECURSIVE Digest(_, _)
Digest(s, h) ==
    IF Len(s) = 0 THEN h ELSE Digest(Tail(s), Absorb(h, Encode(Head(s))))

HexDigits ==
    <<"0", "1", "2", "3", "4", "5", "6", "7", "8", "9", "a", "b", "c", "d",
      "e", "f">>

\* the 16 hex digits of the 64 bits, most significant first
HexDigest16(h) ==
    [k \in 1..16 |->
        HexDigits[1 + h[64 - 4 * k] + 2 * h[65 - 4 * k] + 4 * h[66 - 4 * k]
                    + 8 * h[67 - 4 * k]]]

\* stable_command_id(parts)
StableCommandId(parts) ==
    HexDigest16(Digest(Join(parts), [i \in DigestBits |-> 0]))

\* the keyword arguments of CommandDefinition.create, none given
NoCreateKwargs ==
    [description |-> Absent, parameters |-> Absent, tags |-> Absent,
     invocation |-> Absent, meta |-> Absent]

\* an invocation dict with no key
NoInvocation ==
    [adapter |-> Absent, task_name |-> Absent, package_manager |-> Absent,
     script_name |-> Absent, cwd |-> Absent]

\* create hashing the source path and the name without the origin
IdPartsWithoutOrigin(name, source_path, origin) == <<source_path.v, name.v>>

\* the parts hashed by create
IdParts(name, source_path, origin) == <<<<origin>>, source_path.v, name.v>>

\* CommandDefinition.create(name, source_path, origin, **kw): join raises
\* TypeError for a part that is no str; the model then validates the fields
\* (name: str of min_length 1, tags: list)
Create(name, source_path, origin, kw) ==
    IF name.t # "str" \/ source_path.t # "str" THEN Raise("TypeError")
    ELSE IF Len(name.v) < 1 THEN Raise("ValidationError")
    ELSE IF FieldOr(kw.tags, PyList(<<>>)).t # "list"
    THEN Raise("ValidationError")
    ELSE IF FieldOr(kw.description, PyNone).t \notin {"str", "NoneType"}
    THEN Raise("ValidationError")
    ELSE Return(
        [id |-> StableCommandId(IdParts(name, source_path, origin)),
         name |-> name.v,
         source_path |-> source_path.v,
         origin |-> origin,
         description |-> FieldOr(kw.description, PyNone),
         parameters |-> FieldOr(kw.parameters, PyList(<<>>)).v,
         tags |-> FieldOr(kw.tags, PyList(<<>>)).v,
         estimated_runtime_seconds |-> PyNone,
         invocation |-> FieldOr(kw.invocation, NoInvocation),
         meta |-> FieldOr(kw.meta, [raw_meta |-> Absent])])

-----------------------------------------------------------------------------
(* The project tree read by os.walk, Path and the file loaders *)

\* str(project_root)
ProjectRoot == <<"/", "r">>

\* A tree is the sequence of its directories in os.walk order, each
\* [rel |-> the directory names from the root, taskfile, package |-> the
\* file (Absent when there is none), pnpm_lock, package_lock |-> whether the
\* lockfile exists].  A file is [parsed |-> the outcome of parsing it].
File(doc) == [t |-> "file", parsed |-> Return(doc)]

\* "/".join(parts), for parts that are single symbols
RECURSIVE SlashJoin(_)
SlashJoin(parts) ==
    IF Len(parts) = 0 THEN <<>>
    ELSE IF Len(parts) = 1 THEN <<parts[1]>>
    ELSE <<parts[1], "/">> \o SlashJoin(Tail(parts))

\* str(root) for the walked directory, str(Path(root) / filename)
DirPath(rel) ==
    IF Len(rel) = 0 THEN ProjectRoot ELSE ProjectRoot \o <<"/">> \o SlashJoin(rel)
FilePath(rel, filename) == DirPath(rel) \o <<"/", filename>>

\* skip_dirs
SkipDirs == {"node_modules", ".git", ".venv", "dist", "build"}

\* pruning that only looks at the directories directly under the root
WalkedBelowTop(rel) == Len(rel) = 0 \/ rel[1] \notin SkipDirs

\* os.walk never enters a pruned directory
Walked(rel) == \A i \in 1..Len(rel) : rel[i] \notin SkipDirs

\* the scope tag made of the directory's own name
ScopeTagOfName(rel) ==
    IF Len(rel) = 0 THEN PyNone ELSE PyStr(<<"scope:", rel[Len(rel)]>>)

\* scope_tag: None at the project root, else "scope:<relative path>"
ScopeTag(rel) ==
    IF Len(rel) = 0 THEN PyNone ELSE PyStr(<<"scope:">> \o SlashJoin(rel))

\* both _load helpers: None for a missing or unparsable file; the task
\* file loader returns {} for an empty document
LoadYaml(file) ==
    IF file = Absent THEN PyNone
    ELSE IF file.parsed.raised THEN PyNone
    ELSE IF Truthy(file.parsed.value) THEN file.parsed.value
    ELSE PyDict(<<>>)

LoadJson(file) ==
    IF file = Absent THEN PyNone
    ELSE IF file.parsed.raised THEN PyNone
    ELSE file.parsed.value

\* the confidence both plugins give every artifact: 0.6
PluginConfidence == 60

-----------------------------------------------------------------------------
(* backend/discovery/plugins/taskfile.py: TaskfilePlugin *)

\* x or y
Or(x, y) == IF Truthy(x) THEN x ELSE y

StrOrNone(x) == IF x.t = "str" THEN x ELSE PyNone

\* the artifact of one task (lines 58-79)
TaskArtifact(rel, name, spec) ==
    LET desc == Or(DictGet(spec, "desc", PyNone),
                   DictGet(spec, "description", PyNone))
        cmd == Or(DictGet(spec, "cmd", PyNone), DictGet(spec, "run", PyNone))
        meta == [NoMeta EXCEPT
                    !.task_name = name,
                    !.description = desc,
                    !.origin = PyStr(<<"taskfile">>),
                    !.raw_cmd = cmd,
                    !.cwd = PyStr(DirPath(rel)),
                    !.tags = IF Truthy(ScopeTag(rel))
                             THEN PyList(<<ScopeTag(rel).v>>)
                             ELSE Absent]
    IN  RawArtifact("task", FilePath(rel, "Taskfile.yml"), StrOrNone(cmd),
                    meta, PyFloat(PluginConfidence))

\* TaskItems that also skips a task whose spec has no "cmd" key
RECURSIVE TaskItemsRequiresCmd(_, _, _)
TaskItemsRequiresCmd(rel, items, out) ==
    IF Len(items) = 0 THEN out
    ELSE LET it == Head(items)
         IN  IF it.v.t # "dict" \/ ~ Truthy(DictGet(it.v, "cmd", PyNone))
             THEN TaskItemsRequiresCmd(rel, Tail(items), out)
             ELSE TaskItemsRequiresCmd(rel, Tail(items),
                      Append(out, TaskArtifact(rel, it.k, it.v)))

\* the loop over tasks.items(): a task whose spec is no dict is skipped
RECURSIVE TaskItems(_, _, _)
TaskItems(rel, items, out) ==
    IF Len(items) = 0 THEN out
    ELSE LET it == Head(items)
         IN  IF it.v.t # "dict" THEN TaskItems(rel, Tail(items), out)
             ELSE TaskItems(rel, Tail(items),
                            Append(out, TaskArtifact(rel, it.k, it.v)))

\* the body of the os.walk loop for one directory: the artifacts it
\* appends, or the exception it raises
TaskfileDir(dir) ==
    IF dir.taskfile = Absent THEN Return(<<>>)
    ELSE LET data == LoadYaml(dir.taskfile)
         IN  IF ~ Truthy(data) THEN Return(<<>>)
             ELSE IF data.t # "dict" THEN Raise("AttributeError")
             ELSE LET tasks == DictGet(data, "tasks", PyDict(<<>>))
                  IN  IF tasks.t # "dict" THEN Raise("AttributeError")
                      ELSE Return(TaskItems(dir.rel, tasks.items, <<>>))

-----------------------------------------------------------------------------
(* backend/discovery/plugins/npm_scripts.py: NpmScriptsPlugin *)

\* _detect_pm looking at the lockfiles before the manifest's field
DetectPmLockfilesFirst(dir, pkg) ==
    LET pm_field == DictGet(pkg, "packageManager", PyNone)
    IN  IF dir.pnpm_lock THEN <<"pnpm">>
        ELSE IF dir.package_lock THEN <<"npm">>
        ELSE IF pm_field.t = "str" /\ StartsWith(pm_field.v, <<"pnpm">>)
        THEN <<"pnpm">>
        ELSE <<"npm">>

\* _detect_pm(Path(root), pkg)
DetectPm(dir, pkg) ==
    LET pm_field == DictGet(pkg, "packageManager", PyNone)
    IN  IF pm_field.t = "str" /\ StartsWith(pm_field.v, <<"pnpm">>)
        THEN <<"pnpm">>
        ELSE IF pm_field.t = "str" /\ StartsWith(pm_field.v, <<"npm">>)
        THEN <<"npm">>
        ELSE IF dir.pnpm_lock THEN <<"pnpm">>
        ELSE IF dir.package_lock THEN <<"npm">>
        ELSE <<"npm">>

\* the artifact of one script, scored 0.3 when its command is no string
ScriptArtifactScoredByCmd(dir, pm, name, cmd) ==
    LET meta == [NoMeta EXCEPT
                    !.script_name = name,
                    !.description = PyStr(<<"package script: ">> \o name.v),
                    !.origin = PyStr(<<"package_script">>),
                    !.raw_cmd = StrOrNone(cmd),
                    !.package_manager = PyStr(pm),
                    !.cwd = PyStr(DirPath(dir.rel)),
                    !.tags = IF Truthy(ScopeTag(dir.rel))
                             THEN PyList(<<ScopeTag(dir.rel).v>>)
                             ELSE Absent]
    IN  RawArtifact("package_script", FilePath(dir.rel, "package.json"),
                    StrOrNone(cmd), meta,
                    IF cmd.t = "str" THEN PyFloat(PluginConfidence)
                    ELSE PyFloat(30))

\* the artifact of one script (lines 77-97)
ScriptArtifact(dir, pm, name, cmd) ==
    LET meta == [NoMeta EXCEPT
                    !.script_name = name,
                    !.description = PyStr(<<"package script: ">> \o name.v),
                    !.origin = PyStr(<<"package_script">>),
                    !.raw_cmd = StrOrNone(cmd),
                    !.package_manager = PyStr(pm),
                    !.cwd = PyStr(DirPath(dir.rel)),
                    !.tags = IF Truthy(ScopeTag(dir.rel))
                             THEN PyList(<<ScopeTag(dir.rel).v>>)
                             ELSE Absent]
    IN  RawArtifact("package_script", FilePath(dir.rel, "package.json"),
                    StrOrNone(cmd), meta, PyFloat(PluginConfidence))

\* the loop over scripts.items(); the keys of a JSON object are strings
RECURSIVE ScriptItems(_, _, _, _)
ScriptItems(dir, pm, items, out) ==
    IF Len(items) = 0 THEN out
    ELSE LET it == Head(items)
         IN  IF it.k.t # "str" THEN ScriptItems(dir, pm, Tail(items), out)
             ELSE ScriptItems(dir, pm, Tail(items),
                              Append(out, ScriptArtifact(dir, pm, it.k, it.v)))

\* the body of the os.walk loop for one directory
NpmDir(dir) ==
    IF dir.package = Absent THEN Return(<<>>)
    ELSE LET pkg == LoadJson(dir.package)
         IN  IF ~ Truthy(pkg) THEN Return(<<>>)
             ELSE IF pkg.t # "dict" THEN Raise("AttributeError")
             ELSE LET scripts == Or(DictGet(pkg, "scripts", PyNone),
                                    PyDict(<<>>))
                  IN  IF scripts.t # "dict" THEN Return(<<>>)
                      ELSE Return(ScriptItems(dir, DetectPm(dir, pkg),
                                              scripts.items, <<>>))

-----------------------------------------------------------------------------
(* The plugin protocol: scan, classify, extract, normalize *)

\* The plugins of the model: the two built-in plugins, and "scan_only", a
\* plugin class that defines scan and none of the other phases (its scan is
\* the task-runner scan) and does not inherit from the DiscoveryPlugin protocol;
\* and "selective", a plugin that uses what the protocol allows: its scan
\* emits nothing, its classify discards package scripts and re-scores the
\* other artifacts, its extract discards the task named test and marks the
\* type of the others, its normalize returns the list reversed.
Defines(plugin, method) ==
    plugin \in {"taskfile", "npm_scripts", "selective"} \/ method = "scan"

PluginDir(plugin, dir) ==
    IF plugin = "npm_scripts" THEN NpmDir(dir)
    ELSE IF plugin = "selective" THEN Return(<<>>)
    ELSE TaskfileDir(dir)

\* plugin.scan(project_root): the os.walk loop over the walked directories
RECURSIVE ScanDirs(_, _, _)
ScanDirs(plugin, dirs, out) ==
    IF Len(dirs) = 0 THEN Return(out)
    ELSE IF ~ Walked(Head(dirs).rel) THEN ScanDirs(plugin, Tail(dirs), out)
    ELSE LET r == PluginDir(plugin, Head(dirs))
         IN  IF r.raised THEN r
             ELSE ScanDirs(plugin, Tail(dirs), out \o r.value)

PluginScan(plugin, t) == ScanDirs(plugin, t, <<>>)

\* p.classify(a), p.extract(b), p.normalize(interim): the built-in plugins
\* return their argument; looking up a method the plugin does not define
\* raises AttributeError
PassThrough(plugin, method, x) ==
    IF Defines(plugin, method) THEN Return(x) ELSE Raise("AttributeError")

\* classify of "selective": None for a package script; a copy scored 0.2
\* for an artifact with tags, unscored when it has no description, else 0.9
SelectiveClassify(a) ==
    IF a.type = "package_script" THEN PyNone
    ELSE [a EXCEPT !.confidence =
             IF a.meta.tags # Absent THEN PyFloat(20)
             ELSE IF ~ Truthy(a.meta.description) THEN PyNone
             ELSE PyFloat(90)]

\* extract of "selective": None for the task named test, else a copy of
\* type "command"; it reads its argument's meta, which None does not have
SelectiveExtract(b) ==
    IF b = PyNone THEN Raise("AttributeError")
    ELSE IF b.meta.task_name = PyStr(<<"test">>) THEN Return(PyNone)
    ELSE Return([b EXCEPT !.type = "command"])

\* normalize of "selective": list(reversed(artifacts))
SelectiveNormalize(as) == [i \in 1..Len(as) |-> as[Len(as) + 1 - i]]

PluginClassify(plugin, a) ==
    IF plugin = "selective" THEN Return(SelectiveClassify(a))
    ELSE PassThrough(plugin, "classify", a)
PluginExtract(plugin, a) ==
    IF plugin = "selective" THEN SelectiveExtract(a)
    ELSE PassThrough(plugin, "extract", a)
PluginNormalize(plugin, as) ==
    IF plugin = "selective" THEN Return(SelectiveNormalize(as))
    ELSE PassThrough(plugin, "normalize", as)

-----------------------------------------------------------------------------
(* backend/discovery/normalization.py: normalize_artifacts *)

\* a.meta.get(key)
MetaGet(meta, key) == IF meta[key] = Absent THEN PyNone ELSE meta[key]

\* a.path.split("/")[-1]
RECURSIVE LastSegment(_)
LastSegment(path) ==
    IF Contains(path, "/")
    THEN LastSegment(SubSeq(path, IndexOf(path, "/") + 1, Len(path)))
    ELSE path

\* name = a.meta.get("task_name") or a.path.split("/")[-1]
ArtifactName(a) == Or(MetaGet(a.meta, "task_name"), PyStr(LastSegment(a.path)))

\* Origin(origin_value), Origin.OTHER on ValueError
ResolveOrigin(a) ==
    LET origin_value == Or(MetaGet(a.meta, "origin"), PyStr(<<"other">>))
    IN  IF /\ origin_value.t = "str"
           /\ Len(origin_value.v) = 1
           /\ origin_value.v[1] \in Origin
        THEN origin_value.v[1]
        ELSE "other"

\* the package_script invocation with script_name taken from name alone
ScriptInvocationFromName(a, name) ==
    [NoInvocation EXCEPT
        !.adapter = PyStr(<<"npm">>),
        !.package_manager =
            Or(MetaGet(a.meta, "package_manager"), PyStr(<<"npm">>)),
        !.script_name = name]

\* the package_script invocation (lines 100-107)
ScriptInvocation(a, name) ==
    [NoInvocation EXCEPT
        !.adapter = PyStr(<<"npm">>),
        !.package_manager =
            Or(MetaGet(a.meta, "package_manager"), PyStr(<<"npm">>)),
        !.script_name = Or(MetaGet(a.meta, "script_name"), name)]

\* Invocation attaching cwd only where there is an adapter
InvocationCwdWithAdapter(a, name, origin) ==
    LET cwd == MetaGet(a.meta, "cwd")
    IN  IF origin = "taskfile"
        THEN [NoInvocation EXCEPT !.adapter = PyStr(<<"taskfile">>),
                                  !.task_name = name,
                                  !.cwd = IF Truthy(cwd) THEN cwd ELSE Absent]
        ELSE IF origin = "package_script"
        THEN [ScriptInvocation(a, name) EXCEPT
                 !.cwd = IF Truthy(cwd) THEN cwd ELSE Absent]
        ELSE NoInvocation

\* the invocation dict (lines 96-111)
Invocation(a, name, origin) ==
    LET byOrigin ==
            IF origin = "taskfile"
            THEN [NoInvocation EXCEPT !.adapter = PyStr(<<"taskfile">>),
                                      !.task_name = name]
            ELSE IF origin = "package_script" THEN ScriptInvocation(a, name)
            ELSE NoInvocation
        cwd == MetaGet(a.meta, "cwd")
    IN  IF Truthy(cwd) THEN [byOrigin EXCEPT !.cwd = cwd] ELSE byOrigin

\* the loop body: the CommandDefinition of one artifact, or the exception
\* raised while building it
NormalizeArtifact(a) ==
    LET name == ArtifactName(a)
        origin == ResolveOrigin(a)
        ps == ExtractParameters(MetaGet(a.meta, "raw_cmd"))
    IN  IF ps.raised THEN ps
        ELSE Create(name, PyStr(a.path), origin,
                    [description |-> MetaGet(a.meta, "description"),
                     parameters |-> PyList(ps.value),
                     tags |-> FieldOr(a.meta.tags, PyList(<<>>)),
                     invocation |-> Invocation(a, name, origin),
                     meta |-> [raw_meta |-> a.meta]])

\* the loop skipping an artifact whose command id is already in the list
RECURSIVE NormalizeLoopOncePerId(_, _)
NormalizeLoopOncePerId(as, cmds) ==
    IF Len(as) = 0 THEN Return(cmds)
    ELSE LET c == NormalizeArtifact(Head(as))
         IN  IF c.raised THEN c
             ELSE IF \E i \in 1..Len(cmds) : cmds[i].id = c.value.id
             THEN NormalizeLoopOncePerId(Tail(as), cmds)
             ELSE NormalizeLoopOncePerId(Tail(as), Append(cmds, c.value))

\* normalize_artifacts(artifacts): nothing catches what one artifact raises
RECURSIVE NormalizeLoop(_, _)
NormalizeLoop(as, cmds) ==
    IF Len(as) = 0 THEN Return(cmds)
    ELSE LET c == NormalizeArtifact(Head(as))
         IN  IF c.raised THEN c
             ELSE NormalizeLoop(Tail(as), Append(cmds, c.value))

NormalizeArtifacts(as) == NormalizeLoop(as, <<>>)

-----------------------------------------------------------------------------
(* backend/discovery/engine.py: DiscoveryEngine.run *)

\* DiscoveryEngine(plugins): the caller passes the plugins and nothing else
NoEngineKw == [init |-> Absent, run |-> Absent]

\* an exception that left run, with the phase it was raised in
RaisedIn(phase, r) == [raised |-> TRUE, exc |-> r.exc, tb |-> phase]

\* the loop of lines 36-43 with extract called on a instead of b
RECURSIVE ClassifyExtractOfOriginal(_, _, _)
ClassifyExtractOfOriginal(plugin, as, interim) ==
    IF Len(as) = 0 THEN Return(interim)
    ELSE LET b == PluginClassify(plugin, Head(as))
         IN  IF b.raised THEN b
             ELSE IF b.value = PyNone
             THEN ClassifyExtractOfOriginal(plugin, Tail(as), interim)
             ELSE LET c == PluginExtract(plugin, Head(as))
                  IN  IF c.raised THEN c
                      ELSE IF c.value = PyNone
                      THEN ClassifyExtractOfOriginal(plugin, Tail(as), interim)
                      ELSE ClassifyExtractOfOriginal(plugin, Tail(as),
                                                     Append(interim, c.value))

\* lines 36-43: classify then extract, None at either step drops the artifact
RECURSIVE ClassifyExtract(_, _, _)
ClassifyExtract(plugin, as, interim) ==
    IF Len(as) = 0 THEN Return(interim)
    ELSE LET b == PluginClassify(plugin, Head(as))
         IN  IF b.raised THEN b
             ELSE IF b.value = PyNone
             THEN ClassifyExtract(plugin, Tail(as), interim)
             ELSE LET c == PluginExtract(plugin, b.value)
                  IN  IF c.raised THEN c
                      ELSE IF c.value = PyNone
                      THEN ClassifyExtract(plugin, Tail(as), interim)
                      ELSE ClassifyExtract(plugin, Tail(as),
                                           Append(interim, c.value))

\* lines 35-45: the interim list of one plugin, after its normalize
EnrichOne(plugin, as) ==
    LET ce == ClassifyExtract(plugin, as, <<>>)
    IN  IF ce.raised THEN ce ELSE PluginNormalize(plugin, ce.value)

\* one step of run: a phase and, in the two loops over self._plugins, the
\* index of the plugin the step calls (0 outside the loops)
Step(phase, plugin) == [phase |-> phase, plugin |-> plugin]

\* the loop ends after its first plugin
AdvanceOnce(next) == pc' = next /\ at' = 1

\* the loop moves to the next plugin, or the phase ends
Advance(next) ==
    IF at < Len(plugins) THEN pc' = pc /\ at' = at + 1
    ELSE pc' = next /\ at' = 1

\* lines 29-31: one plugin's scan, its artifacts appended to collected
Scan ==
    /\ pc = "scan"
    /\ trace' = Append(trace, Step("scan", at))
    /\ LET r == PluginScan(plugins[at], tree)
       IN  IF r.raised
           THEN /\ pc' = "raised" /\ result' = RaisedIn("scan", r)
                /\ UNCHANGED <<at, collected>>
           ELSE /\ collected' = collected \o r.value
                /\ Advance("enrich")
                /\ UNCHANGED result
    /\ UNCHANGED <<tree, plugins, enriched, filtered, pureVars, moreVars, quickVars>>

\* lines 34-46: one plugin's classify/extract over all of collected, its
\* normalize, and the extension of enriched
Enrich ==
    /\ pc = "enrich"
    /\ trace' = Append(trace, Step("enrich", at))
    /\ LET r == EnrichOne(plugins[at], collected)
       IN  IF r.raised
           THEN /\ pc' = "raised" /\ result' = RaisedIn("enrich", r)
                /\ UNCHANGED <<at, enriched>>
           ELSE /\ enriched' = enriched \o r.value
                /\ Advance("filter")
                /\ UNCHANGED result
    /\ UNCHANGED <<tree, plugins, collected, filtered, pureVars, moreVars, quickVars>>

\* line 48: the filter, called without a threshold
Filter ==
    /\ pc = "filter"
    /\ trace' = Append(trace, Step("filter", 0))
    /\ filtered' = FilterByConfidence(enriched, Absent)
    /\ pc' = "normalize"
    /\ UNCHANGED <<tree, plugins, at, collected, enriched, result, pureVars, moreVars, quickVars>>

\* lines 50-51: the global normalization and the returned DiscoveryResult
Normalize ==
    /\ pc = "normalize"
    /\ trace' = Append(trace, Step("normalize", 0))
    /\ LET r == NormalizeArtifacts(filtered)
       IN  IF r.raised
           THEN pc' = "raised" /\ result' = RaisedIn("normalize", r)
           ELSE /\ pc' = "done"
                /\ result' = Return([raw_artifacts |-> filtered,
                                     commands |-> r.value])
    /\ UNCHANGED <<tree, plugins, at, collected, enriched, filtered, pureVars, moreVars, quickVars>>

\* os.walk(project_root) for a project_root that does not exist or is no
\* directory: the walk yields nothing and reports no error
InvalidRoot == <<>>

\* lines 23-24: DiscoveryEngine(plugins, **engine_kw.init).  __init__ takes
\* plugins and nothing else, so any further argument is a TypeError
Construct ==
    /\ pc = "new"
    /\ IF engine_kw.init # Absent
       THEN pc' = "raised" /\ result' = RaisedIn("__init__", Raise("TypeError"))
       ELSE pc' = "ready" /\ UNCHANGED result
    /\ UNCHANGED <<tree, plugins, at, collected, enriched, filtered, pureVars,
                   moreVars, trace, quickVars>>

\* run always starts from a collected list that only holds its own artifacts
CollectedLeftOver == collected

\* line 27: collected = []
FreshCollected == <<>>

\* lines 26-27: engine.run(project_root, **engine_kw.run) is called on one
\* of the given trees.  run takes project_root and nothing else.
CallRun(trees) ==
    /\ pc = "ready"
    /\ \E t \in trees : tree' = t
    /\ trace' = <<>>
    /\ IF engine_kw.run # Absent
       THEN /\ pc' = "raised" /\ result' = RaisedIn("run", Raise("TypeError"))
            /\ UNCHANGED <<at, collected, enriched, filtered>>
       ELSE /\ pc' = "scan" /\ result' = Pending /\ at' = 1
            /\ collected' = FreshCollected
            /\ enriched' = <<>> /\ filtered' = <<>>
    /\ UNCHANGED <<plugins, pureVars, moreVars, quickVars>>

MaxRuns == 3

\* run has returned or raised: its caller holds the outcome and the engine
\* can be called again
ReturnToCaller ==
    /\ pc \in {"done", "raised"}
    /\ result.raised => result.tb # "__init__"
    /\ Len(history) + 1 < MaxRuns
    /\ history' = Append(history, [tree |-> tree, plugins |-> plugins,
                                   result |-> result])
    /\ pc' = "ready"
    /\ UNCHANGED <<tree, plugins, at, collected, enriched, filtered, result,
                   pureVars, engine_kw, norm_artifacts, norm_result, projects,
                   wrapper, calls, trace, quickVars>>

\* run(project_root) as one function of the plugin list and the tree:
\* lines 29-31, 34-46, 48 and 50-51 in turn
RECURSIVE ScanAll(_, _, _)
ScanAll(ps, t, out) ==
    IF Len(ps) = 0 THEN Return(out)
    ELSE LET r == PluginScan(Head(ps), t)
         IN  IF r.raised THEN RaisedIn("scan", r)
             ELSE ScanAll(Tail(ps), t, out \o r.value)

RECURSIVE EnrichAll(_, _, _)
EnrichAll(ps, as, out) ==
    IF Len(ps) = 0 THEN Return(out)
    ELSE LET r == EnrichOne(Head(ps), as)
         IN  IF r.raised THEN RaisedIn("enrich", r)
             ELSE EnrichAll(Tail(ps), as, out \o r.value)

\* line 51, or the exception of line 50
RunResult(flt, cmds) ==
    IF cmds.raised THEN RaisedIn("normalize", cmds)
    ELSE Return([raw_artifacts |-> flt, commands |-> cmds.value])

\* lines 50-51
RunNormalized(flt) == RunResult(flt, NormalizeArtifacts(flt))

\* lines 48-51
RunEnriched(enr) ==
    IF enr.raised THEN enr
    ELSE RunNormalized(FilterByConfidence(enr.value, Absent))

\* lines 33-51
RunScanned(ps, scanned) ==
    IF scanned.raised THEN scanned
    ELSE RunEnriched(EnrichAll(ps, scanned.value, <<>>))

Run(ps, t) == RunScanned(ps, ScanAll(ps, t, <<>>))

-----------------------------------------------------------------------------
(* Specification SpecExtract: _extract_parameters applied to one argument *)

\* the symbols raw commands are enumerated over
CmdAlphabet == {"-", "=", "<", ">", " ", "a"}

MaxCmdLen == 4

CmdStrings == UNION {[1..n -> CmdAlphabet] : n \in 0..MaxCmdLen}

\* longer commands: up to MaxTokens tokens of a vocabulary, joined by " "
TokenVocabulary ==
    {<<"-", "-", "a">>, <<"-", "-", "a", "=", "b">>, <<"-", "-", "a", "=">>,
     <<"<", "a", ">">>, <<"-", "-", "a", "-", "b">>, <<"<", "a", "-", "b", ">">>,
     <<"-", "-", "a", "_", "b", "=", "a", "=", "b">>,
     <<"-", "-">>, <<"-", "-", "=", "b">>, <<"<", ">">>, <<"e", "c", "h", "o">>}

MaxTokens == 3

RECURSIVE JoinTokens(_)
JoinTokens(toks) ==
    IF Len(toks) = 0 THEN <<>>
    ELSE IF Len(toks) = 1 THEN toks[1]
    ELSE toks[1] \o <<" ">> \o JoinTokens(Tail(toks))

TokenCommands ==
    {JoinTokens(toks) : toks \in UNION {[1..n -> TokenVocabulary] : n \in 1..MaxTokens}}

\* "--verbose --out=/tmp/x <file>", "echo building", "echo testing"
ExampleCmd ==
    <<"-", "-", "verbose", " ", "-", "-", "out", "=", "/tmp/x", " ",
      "<", "file", ">">>
EchoBuilding == <<"echo", " ", "building">>
EchoTesting == <<"echo", " ", "testing">>

RawCmdInputs ==
    {PyStr(c) : c \in CmdStrings \cup TokenCommands
                      \cup {ExampleCmd, EchoBuilding, EchoTesting}}
    \cup {PyNone, PyList(<<>>), PyList(<<PyStr(EchoBuilding)>>),
          PyInt(0), PyInt(1), PyBool(FALSE), PyBool(TRUE)}

ExtractIdle == raw_cmd = Idle /\ params = Idle
PdIdle == pd_args = Idle /\ pd_result = Idle
FilterIdle == artifacts = Idle /\ threshold = Idle /\ kept = Idle
CreateIdle == defs = <<>>
RunIdle ==
    /\ tree = <<>> /\ plugins = <<>> /\ pc = "idle" /\ at = 0
    /\ collected = <<>> /\ enriched = <<>> /\ filtered = <<>> /\ result = Idle
NormIdle == norm_artifacts = Idle /\ norm_result = Idle
PlainEngine == engine_kw = NoEngineKw /\ history = <<>>
CatalogIdle == projects = Idle /\ wrapper = Idle /\ calls = <<>>
MoreIdle == NormIdle /\ PlainEngine /\ CatalogIdle
QuickIdle == quick_file = Idle /\ quick_calls = <<>>

ExtractInit ==
    /\ trace = <<>>
    /\ QuickIdle
    /\ raw_cmd \in RawCmdInputs
    /\ params = Pending
    /\ PdIdle
    /\ FilterIdle
    /\ CreateIdle
    /\ RunIdle
    /\ MoreIdle

CallExtractParameters ==
    /\ params = Pending
    /\ params' = ExtractParameters(raw_cmd)
    /\ UNCHANGED <<raw_cmd, pd_args, pd_result, artifacts, threshold, kept, defs,
                   runVars, moreVars, trace, quickVars>>

ExtractNext == CallExtractParameters

SpecExtract == ExtractInit /\ [][ExtractNext]_vars

-----------------------------------------------------------------------------
(* Claims about parameter inference (SpecExtract) *)

ExtractDone == params # Pending /\ params # Idle

\* how the claims read one token: its kind, derived name and value portion
TokKind(tok) ==
    IF StartsWith(tok, <<"-", "-">>)
    THEN IF Contains(tok, "=") THEN "keyvalue" ELSE "flag"
    ELSE IF StartsWith(tok, <<"<">>) /\ EndsWith(tok, <<">">>) /\ Len(tok) > 2
         THEN "positional"
         ELSE "other"

TokName(tok) ==
    CASE TokKind(tok) = "keyvalue" ->
            Replace(SubSeq(tok, 3, IndexOf(tok, "=") - 1), "-", "_")
      [] TokKind(tok) = "flag" -> Replace(SubSeq(tok, 3, Len(tok)), "-", "_")
      [] TokKind(tok) = "positional" ->
            Replace(SubSeq(tok, 2, Len(tok) - 1), "-", "_")
      [] OTHER -> <<>>

TokValue(tok) == SubSeq(tok, IndexOf(tok, "=") + 1, Len(tok))

\* p is the parameter the claims describe for tok
ParamOfToken(p, tok) ==
    /\ p.name = PyStr(TokName(tok))
    /\ CASE TokKind(tok) = "keyvalue" ->
                /\ p.type = PyStr(<<"string">>)
                /\ p.required = PyBool(FALSE)
                /\ p.default = PyStr(TokValue(tok))
         [] TokKind(tok) = "flag" ->
                /\ p.type = PyStr(<<"boolean">>)
                /\ p.required = PyBool(FALSE)
                /\ p.default = PyBool(FALSE)
         [] TokKind(tok) = "positional" ->
                /\ p.type = PyStr(<<"string">>)
                /\ p.required = PyBool(TRUE)
                /\ p.default = PyNone
                /\ p.meta.positional = PyBool(TRUE)
         [] OTHER -> FALSE

CmdTokens == IF raw_cmd.t = "str" THEN Split(raw_cmd.v) ELSE <<>>

\* the tokens that derive a non-empty name, and among them the first of
\* each name
NamedTokens ==
    {i \in 1..Len(CmdTokens) :
        TokKind(CmdTokens[i]) # "other" /\ Len(TokName(CmdTokens[i])) > 0}
FirstNamedTokens ==
    {i \in NamedTokens :
        \A j \in NamedTokens :
            j < i => TokName(CmdTokens[j]) # TokName(CmdTokens[i])}

\* the k-th smallest element of a set of numbers
Nth(S, k) == CHOOSE i \in S : Cardinality({j \in S : j < i}) = k - 1

ExampleResultHolds ==
    raw_cmd = PyStr(ExampleCmd) =>
        /\ Len(params.value) = 3
        /\ params.value[1].name = PyStr(<<"verbose">>)
        /\ params.value[1].type = PyStr(<<"boolean">>)
        /\ params.value[1].default = PyBool(FALSE)
        /\ params.value[2].name = PyStr(<<"out">>)
        /\ params.value[2].type = PyStr(<<"string">>)
        /\ params.value[2].default = PyStr(<<"/tmp/x">>)
        /\ params.value[3].name = PyStr(<<"file">>)
        /\ params.value[3].type = PyStr(<<"string">>)
        /\ params.value[3].required = PyBool(TRUE)
        /\ params.value[3].meta.positional = PyBool(TRUE)

\* C6 as stated: every token that starts with "--" or is wrapped in <...>
\* yields the parameter of its kind, and every other token yields nothing.
C6_EveryTokenYields ==
    (ExtractDone /\ raw_cmd.t = "str") =>
        /\ ~ params.raised
        /\ \A i \in 1..Len(CmdTokens) :
              TokKind(CmdTokens[i]) # "other" =>
                  \E k \in 1..Len(params.value) :
                      ParamOfToken(params.value[k], CmdTokens[i])
        /\ \A k \in 1..Len(params.value) :
              \E i \in 1..Len(CmdTokens) :
                  ParamOfToken(params.value[k], CmdTokens[i])
        /\ ExampleResultHolds

\* C6 amended: every token that derives a non-empty name no earlier token
\* derived yields exactly one parameter of that name, shaped by the token's
\* kind (keyvalue: string, not required, default the value portion; flag:
\* boolean, not required, default false; positional: required string with
\* meta positional); no other token yields a parameter; the example gives
\* verbose, out, file.
C6_Classification ==
    (ExtractDone /\ raw_cmd.t = "str") =>
        /\ ~ params.raised
        /\ \A i \in FirstNamedTokens :
              /\ \E k \in 1..Len(params.value) :
                    ParamOfToken(params.value[k], CmdTokens[i])
              /\ Cardinality({k \in 1..Len(params.value) :
                    params.value[k].name = PyStr(TokName(CmdTokens[i]))}) = 1
        /\ \A k \in 1..Len(params.value) :
              \E i \in FirstNamedTokens :
                  ParamOfToken(params.value[k], CmdTokens[i])
        /\ ExampleResultHolds

C6_Witness ==
    /\ ExtractDone
    /\ raw_cmd = PyStr(ExampleCmd)
    /\ ~ params.raised
    /\ Len(params.value) = 3

\* C7: the names of the returned parameters are pairwise distinct, and the
\* k-th returned parameter is the one of the k-th token that is the first to
\* derive its name (kinds mixed), so later tokens of a name are dropped and
\* the order is that of the first-seen tokens.
C7_FirstOccurrenceWins ==
    (ExtractDone /\ raw_cmd.t = "str") =>
        /\ ~ params.raised
        /\ \A k, l \in 1..Len(params.value) :
              k # l => params.value[k].name # params.value[l].name
        /\ Len(params.value) = Cardinality(FirstNamedTokens)
        /\ \A k \in 1..Len(params.value) :
              ParamOfToken(params.value[k],
                           CmdTokens[Nth(FirstNamedTokens, k)])

\* a later token of another kind repeats an earlier token's name
C7_Witness ==
    /\ ExtractDone
    /\ raw_cmd.t = "str"
    /\ ~ params.raised
    /\ \E i, j \in NamedTokens :
          /\ i < j
          /\ TokName(CmdTokens[i]) = TokName(CmdTokens[j])
          /\ TokKind(CmdTokens[i]) = "keyvalue"
          /\ TokKind(CmdTokens[j]) = "positional"
    /\ Len(params.value) = 2

\* C8: for "", None and every non-string argument the call returns the
\* empty sequence and does not raise.
C8_EmptyForNonStrings ==
    (ExtractDone /\ (raw_cmd.t # "str" \/ raw_cmd = PyStr(<<>>))) =>
        params = Return(<<>>)

\* a non-empty list of commands was passed
C8_Witness ==
    /\ ExtractDone
    /\ raw_cmd = PyList(<<PyStr(EchoBuilding)>>)
    /\ params = Return(<<>>)

-----------------------------------------------------------------------------
(* Specification SpecParamDef: one ParameterDefinition(...) construction *)

PdArgInputs ==
    {[NoKwargs EXCEPT !.name = n, !.type = ty, !.enum = e, !.min = lo,
                      !.max = hi, !.regex = re, !.required = rq,
                      !.default = d] :
        n \in {PyStr(<<"a">>), PyStr(<<>>)},
        ty \in {PyStr(w) : w \in ParameterType \cup {<<"bogus">>}},
        e \in {Absent, PyList(<<>>), PyList(<<PyStr(<<"x">>)>>)},
        lo \in {Absent, PyFloat(0)},
        hi \in {Absent, PyFloat(1)},
        re \in {Absent, PyStr(<<"a", "+">>), PyStr(<<"(">>)},
        rq \in {Absent, PyBool(FALSE), PyBool(TRUE)},
        d \in {Absent, PyBool(FALSE), PyStr(<<"v">>)}}

ParamDefInit ==
    /\ trace = <<>>
    /\ QuickIdle
    /\ pd_args \in PdArgInputs
    /\ pd_result = Pending
    /\ ExtractIdle
    /\ FilterIdle
    /\ CreateIdle
    /\ RunIdle
    /\ MoreIdle

CallParameterDefinition ==
    /\ pd_result = Pending
    /\ pd_result' = ParameterDefinition(pd_args)
    /\ UNCHANGED <<pd_args, raw_cmd, params, artifacts, threshold, kept, defs,
                   runVars, moreVars, trace, quickVars>>

ParamDefNext == CallParameterDefinition

SpecParamDef == ParamDefInit /\ [][ParamDefNext]_vars

-----------------------------------------------------------------------------
(* Claims about ParameterDefinition (SpecParamDef) *)

ParamDefDone == pd_result # Pending /\ pd_result # Idle

Given(x) == x # Absent /\ x # PyNone

\* the four constraints, over an object o or over the arguments
EnumConstraint(o) ==
    Given(o.enum) => o.type = PyStr(<<"enum">>) /\ Len(o.enum.v) > 0
BoundsConstraint(o) ==
    (Given(o.min) \/ Given(o.max)) =>
        o.type \in {PyStr(<<"integer">>), PyStr(<<"float">>)}
RegexConstraint(o) == Given(o.regex) => o.type = PyStr(<<"string">>)
RequiredConstraint(o) == o.required = PyBool(TRUE) => ~ Given(o.default)

FourConstraints(o) ==
    /\ EnumConstraint(o)
    /\ BoundsConstraint(o)
    /\ RegexConstraint(o)
    /\ RequiredConstraint(o)

\* C10: a construction whose arguments break one of the four constraints
\* (enum without type enum or empty, min/max on a non-numeric type, regex on
\* a non-string type, required with a non-null default) raises a validation
\* error, so every constructed ParameterDefinition satisfies all four.
C10_InvalidConstructionFails ==
    ParamDefDone =>
        /\ ~ FourConstraints(pd_args) => pd_result = Raise("ValidationError")
        /\ ~ pd_result.raised => FourConstraints(pd_result.value)

\* the four cases named by the claim were each tried and rejected
C10_Witness ==
    /\ ParamDefDone
    /\ pd_result.raised
    /\ pd_args.name = PyStr(<<"a">>)
    /\ pd_args.type = PyStr(<<"string">>)
    /\ pd_args.enum = PyList(<<PyStr(<<"x">>)>>)
    /\ ~ Given(pd_args.min) /\ ~ Given(pd_args.max) /\ ~ Given(pd_args.regex)
    /\ ~ Given(pd_args.required) /\ ~ Given(pd_args.default)

-----------------------------------------------------------------------------
(* Specification SpecFilter: one filter_by_confidence call *)

MaxArtifacts == 3

ConfidenceInputs == {PyNone} \cup {PyFloat(c) : c \in {0, 34, 35, 36, 60}}

ArtifactInputs ==
    {RawArtifact("task", <<p>>, PyNone, NoMeta, c) :
        p \in {"f1", "f2"}, c \in ConfidenceInputs}

FilterInit ==
    /\ trace = <<>>
    /\ QuickIdle
    /\ artifacts \in UNION {[1..n -> ArtifactInputs] : n \in 0..MaxArtifacts}
    /\ threshold \in {Absent, PyFloat(0), PyFloat(36), PyFloat(60)}
    /\ kept = Pending
    /\ ExtractIdle
    /\ PdIdle
    /\ CreateIdle
    /\ RunIdle
    /\ MoreIdle

CallFilterByConfidence ==
    /\ kept = Pending
    /\ kept' = Return(FilterByConfidence(artifacts, threshold))
    /\ UNCHANGED <<artifacts, threshold, raw_cmd, params, pd_args, pd_result, defs,
                   runVars, moreVars, trace, quickVars>>

FilterNext == CallFilterByConfidence

SpecFilter == FilterInit /\ [][FilterNext]_vars

-----------------------------------------------------------------------------
(* Claims about the confidence filter (SpecFilter) *)

FilterDone == kept # Pending /\ kept # Idle

EffectiveThreshold ==
    IF threshold = Absent THEN DEFAULT_CONFIDENCE_THRESHOLD ELSE threshold.v

\* the positions of the input the claim says are retained
RetainedPositions ==
    {i \in 1..Len(artifacts) :
        \/ artifacts[i].confidence = PyNone
        \/ artifacts[i].confidence.v >= EffectiveThreshold}

\* C9: the output holds exactly the input artifacts whose confidence is None
\* or >= the threshold (equal passes, below is dropped), unchanged and in
\* their input order.
C9_RetainsIffNoneOrAtLeast ==
    FilterDone =>
        /\ ~ kept.raised
        /\ Len(kept.value) = Cardinality(RetainedPositions)
        /\ \A k \in 1..Len(kept.value) :
              kept.value[k] = artifacts[Nth(RetainedPositions, k)]

\* an artifact exactly at the threshold, one below it and one without
\* confidence went through the filter
C9_Witness ==
    /\ FilterDone
    /\ Len(artifacts) = 3
    /\ artifacts[1].confidence = PyFloat(34)
    /\ artifacts[2].confidence = PyFloat(EffectiveThreshold)
    /\ artifacts[3].confidence = PyNone
    /\ kept = Return(<<artifacts[2], artifacts[3]>>)

-----------------------------------------------------------------------------
(* Specification SpecCreate: CommandDefinition.create called repeatedly *)

MaxDefs == 2

CreateNames == {<<"n">>, <<"n", US, "n">>}
CreatePaths == {<<"p">>, <<"q">>, <<"p", US, "n">>}
CreateOrigins == {"taskfile", "other"}
CreateKwargs ==
    {NoCreateKwargs,
     [NoCreateKwargs EXCEPT !.description = PyStr(<<"d">>),
                            !.tags = PyList(<<<<"t">>>>)]}

CreateInit ==
    /\ trace = <<>>
    /\ QuickIdle
    /\ defs = <<>>
    /\ ExtractIdle
    /\ PdIdle
    /\ FilterIdle
    /\ RunIdle
    /\ MoreIdle

CallCreate ==
    /\ Len(defs) < MaxDefs
    /\ \E name \in CreateNames, source_path \in CreatePaths,
          origin \in CreateOrigins, kw \in CreateKwargs :
          LET made == Create(PyStr(name), PyStr(source_path), origin, kw)
          IN  /\ ~ made.raised
              /\ defs' = Append(defs, made.value)
    /\ UNCHANGED <<raw_cmd, params, pd_args, pd_result, artifacts, threshold,
                   kept, runVars, moreVars, trace, quickVars>>

CreateNext == CallCreate

SpecCreate == CreateInit /\ [][CreateNext]_vars

-----------------------------------------------------------------------------
(* Claims about the stable id (SpecCreate) *)

Triple(c) == <<c.origin, c.source_path, c.name>>

HasSeparator(c) == Contains(c.source_path, US) \/ Contains(c.name, US)

\* C4 as stated: two definitions have the same id exactly when their
\* triples (origin, source_path, name) are equal.
C4_IdIffTriple ==
    \A i, j \in 1..Len(defs) :
        (defs[i].id = defs[j].id) <=> (Triple(defs[i]) = Triple(defs[j]))

\* C4 amended: a 16-hex-digit id that is the same for the same triple
\* whatever the other fields, and differs for triples that differ in any
\* component when neither source_path nor name holds the separator U+001F.
C4_IdOfSeparatorFreeTriple ==
    \A i, j \in 1..Len(defs) :
        /\ Len(defs[i].id) = 16
        /\ Triple(defs[i]) = Triple(defs[j]) => defs[i].id = defs[j].id
        /\ (/\ Triple(defs[i]) # Triple(defs[j])
            /\ ~ HasSeparator(defs[i])
            /\ ~ HasSeparator(defs[j])) => defs[i].id # defs[j].id

\* two definitions of one triple that differ in description and tags
C4_Witness ==
    /\ Len(defs) = 2
    /\ Triple(defs[1]) = Triple(defs[2])
    /\ defs[1].description # defs[2].description
    /\ defs[1].tags # defs[2].tags
    /\ defs[1].id = defs[2].id

-----------------------------------------------------------------------------
(* Specification Spec: DiscoveryEngine(plugins).run(project_root) *)

MaxTasks == 2
MaxScripts == 2

TaskNames == <<"build", "test", "lint">>
ScriptNames == <<"dev", "test", "lint">>
EchoCmds == <<EchoBuilding, EchoTesting, <<"echo", " ", "linting">>>>

\* a task's spec: a mapping with desc and cmd, a mapping with run (a command
\* with flags), or the short form (a bare command string, no mapping)
TaskKinds == {"cmd", "run", "short"}
TaskSpec(kind, i) ==
    CASE kind = "cmd" ->
            PyDict(<<[k |-> "desc", v |-> PyStr(<<"d">>)],
                     [k |-> "cmd", v |-> PyStr(EchoCmds[i])]>>)
      [] kind = "run" -> PyDict(<<[k |-> "run", v |-> PyStr(ExampleCmd)]>>)
      [] OTHER -> PyStr(EchoCmds[i])

TaskfileDoc(kinds) ==
    PyDict(<<[k |-> "version", v |-> PyStr(<<"3">>)],
             [k |-> "tasks",
              v |-> PyDict([i \in 1..Len(kinds) |->
                              [k |-> PyStr(<<TaskNames[i]>>),
                               v |-> TaskSpec(kinds[i], i)]])]>>)

\* a script's command: a string, or a value that is no string
ScriptKinds == {"str", "nonstr"}
ScriptCmd(kind, i) == IF kind = "str" THEN PyStr(EchoCmds[i]) ELSE PyInt(1)

PackageDoc(kinds) ==
    PyDict(<<[k |-> "name", v |-> PyStr(<<"app">>)],
             [k |-> "scripts",
              v |-> PyDict([i \in 1..Len(kinds) |->
                              [k |-> PyStr(<<ScriptNames[i]>>),
                               v |-> ScriptCmd(kinds[i], i)]])]>>)

TaskfileInputs ==
    {Absent} \cup
    {File(TaskfileDoc(kinds)) :
        kinds \in UNION {[1..n -> TaskKinds] : n \in 0..MaxTasks}}

PackageInputs ==
    {Absent} \cup
    {File(PackageDoc(kinds)) :
        kinds \in UNION {[1..n -> ScriptKinds] : n \in 0..MaxScripts}}

Dir(rel, tf, pk, pnpm) ==
    [rel |-> rel, taskfile |-> tf, package |-> pk, pnpm_lock |-> pnpm,
     package_lock |-> FALSE]

\* below the root: a subproject and a vendor directory, each with a task
\* file and a package manifest
SubDirs ==
    <<Dir(<<"sub">>, File(TaskfileDoc(<<"cmd">>)), File(PackageDoc(<<"str">>)),
          TRUE),
      Dir(<<"node_modules">>, File(TaskfileDoc(<<"cmd">>)),
          File(PackageDoc(<<"str">>)), FALSE)>>

TreeInputs ==
    {<<Dir(<<>>, tf, pk, FALSE)>> \o SubSeq(SubDirs, 1, n) :
        tf \in TaskfileInputs, pk \in PackageInputs, n \in 0..Len(SubDirs)}

\* the plugin lists: each built-in plugin alone, and the catalog's list
PluginLists ==
    {<<"taskfile">>, <<"npm_scripts">>, <<"taskfile", "npm_scripts">>}

Init ==
    /\ trace = <<>>
    /\ QuickIdle
    /\ tree \in TreeInputs
    /\ plugins \in PluginLists
    /\ pc = "scan"
    /\ at = 1
    /\ collected = <<>>
    /\ enriched = <<>>
    /\ filtered = <<>>
    /\ result = Pending
    /\ ExtractIdle
    /\ PdIdle
    /\ FilterIdle
    /\ CreateIdle
    /\ MoreIdle

Next == Scan \/ Enrich \/ Filter \/ Normalize

Spec == Init /\ [][Next]_vars

-----------------------------------------------------------------------------
(* Claims about a discovery run (Spec) *)

Returned == pc = "done"
Commands == result.value.commands
RawArtifacts == result.value.raw_artifacts

\* The tasks and scripts the tree declares, read off the files: for every
\* walked directory in walk order, the entries of the "tasks" mapping whose
\* spec is a mapping, and the entries of the "scripts" mapping.
DeclaredIn(file, key) ==
    IF file = Absent THEN <<>>
    ELSE DictGet(file.parsed.value, key, PyDict(<<>>)).items

RECURSIVE Declared(_, _, _)
Declared(dirs, key, filename) ==
    IF Len(dirs) = 0 THEN <<>>
    ELSE LET d == Head(dirs)
             its == DeclaredIn(IF key = "tasks" THEN d.taskfile ELSE d.package,
                               key)
             here == IF Walked(d.rel)
                     THEN [i \in 1..Len(its) |->
                             [name |-> its[i].k, spec |-> its[i].v,
                              path |-> FilePath(d.rel, filename)]]
                     ELSE <<>>
         IN  here \o Declared(Tail(dirs), key, filename)

IsMappingTask(e) == e.spec.t = "dict"
DeclaredTasks ==
    SelectSeq(Declared(tree, "tasks", "Taskfile.yml"), IsMappingTask)
DeclaredScripts == Declared(tree, "scripts", "package.json")

\* the project of the end-to-end example: one Taskfile.yml at the root with
\* build (cmd: echo building) and test (cmd: echo testing), nothing else
ExampleTree == <<Dir(<<>>, File(TaskfileDoc(<<"cmd", "cmd">>)), Absent, FALSE)>>

IsTaskCommand(c, e) ==
    /\ c.origin = "taskfile"
    /\ c.invocation.adapter = PyStr(<<"taskfile">>)
    /\ c.invocation.task_name = e.name
    /\ c.source_path = e.path

IsScriptCommand(c, e) ==
    /\ c.origin = "package_script"
    /\ c.invocation.adapter = PyStr(<<"npm">>)
    /\ c.invocation.script_name = e.name
    /\ c.source_path = e.path

C3_IdsLocallyUnique ==
    Returned =>
        \A i, j \in 1..Len(Commands) :
            i # j => Commands[i].id # Commands[j].id

\* the name an artifact's metadata declares: the task name of a task, the
\* script name of a package script
DeclaredName(a) ==
    IF a.type = "package_script"
    THEN MetaGet(a.meta, "script_name")
    ELSE MetaGet(a.meta, "task_name")

\* C5: every command is named after the task or script name its artifact's
\* metadata declares, and after the last path segment only when none is
\* declared.
C5_NamedAfterDeclaredName ==
    Returned =>
        /\ Len(Commands) = Len(RawArtifacts)
        /\ \A i \in 1..Len(Commands) :
              PyStr(Commands[i].name) =
                  IF Truthy(DeclaredName(RawArtifacts[i]))
                  THEN DeclaredName(RawArtifacts[i])
                  ELSE PyStr(LastSegment(RawArtifacts[i].path))

-----------------------------------------------------------------------------
(* Specification SpecEngine: an engine is constructed and run once, on    *)
(* trees whose recognized files may be unreadable or malformed             *)

\* a recognized file that cannot be read, or whose text does not parse
Unreadable == [t |-> "file", parsed |-> Raise("PermissionError")]
Unparsable == [t |-> "file", parsed |-> Raise("ParseError")]

\* a task file with one task whose name is the YAML integer 1
IntNameDoc ==
    PyDict(<<[k |-> "tasks",
              v |-> PyDict(<<[k |-> PyInt(1), v |-> TaskSpec("cmd", 1)]>>)]>>)

\* Taskfile.yml at the root: missing, the example, unreadable, invalid YAML,
\* an empty document, a top-level list, "tasks:" with no value, and a task
\* whose name is no string
FaultTaskfiles ==
    {Absent,
     File(TaskfileDoc(<<"cmd", "cmd">>)),
     Unreadable,
     Unparsable,
     File(PyNone),
     File(PyList(<<PyStr(<<"build">>)>>)),
     File(PyDict(<<[k |-> "tasks", v |-> PyNone]>>)),
     File(IntNameDoc)}

\* package.json at the root: missing, two scripts, invalid JSON, null, a
\* top-level list, "scripts": null and "scripts": [...]
FaultPackages ==
    {Absent,
     File(PackageDoc(<<"str", "str">>)),
     Unparsable,
     File(PyNone),
     File(PyList(<<PyStr(<<"dev">>)>>)),
     File(PyDict(<<[k |-> "scripts", v |-> PyNone]>>)),
     File(PyDict(<<[k |-> "scripts", v |-> PyList(<<PyStr(<<"dev">>)>>)]>>))}

\* an existing root with these files, with or without the subproject; or a
\* project_root that is no directory
FaultTrees ==
    {<<Dir(<<>>, tf, pk, FALSE)>> \o SubSeq(SubDirs, 1, n) :
        tf \in FaultTaskfiles, pk \in FaultPackages, n \in 0..1}
    \cup {InvalidRoot}

\* the built-in plugin lists, and lists with a plugin that defines only scan
EnginePluginLists ==
    PluginLists \cup {<<"scan_only">>, <<"taskfile", "scan_only">>}

\* what the caller passes besides the plugins and the root: nothing, or a
\* confidence threshold to the constructor or to run
EngineKwInputs ==
    {NoEngineKw,
     [NoEngineKw EXCEPT !.init = PyFloat(70)],
     [NoEngineKw EXCEPT !.run = PyFloat(70)]}

EngineInit ==
    /\ trace = <<>>
    /\ QuickIdle
    /\ pc = "new"
    /\ plugins \in EnginePluginLists
    /\ engine_kw \in EngineKwInputs
    /\ tree = <<>>
    /\ at = 0
    /\ collected = <<>>
    /\ enriched = <<>>
    /\ filtered = <<>>
    /\ result = Pending
    /\ history = <<>>
    /\ ExtractIdle
    /\ PdIdle
    /\ FilterIdle
    /\ CreateIdle
    /\ NormIdle
    /\ CatalogIdle

EngineNext ==
    Construct \/ CallRun(FaultTrees) \/ Scan \/ Enrich \/ Filter \/ Normalize

SpecEngine == EngineInit /\ [][EngineNext]_vars

-----------------------------------------------------------------------------
(* Claims about faults in a discovery run (SpecEngine) *)

RaisedFrom(phases) == pc = "raised" /\ result.tb \in phases

\* the scan phase of the run is over
Scanned ==
    \/ pc \in {"enrich", "filter", "normalize", "done"}
    \/ RaisedFrom({"enrich", "normalize"})

\* the artifact a is in the list as
InList(a, as) == \E i \in 1..Len(as) : as[i] = a

\* C11: scan never raises because of a recognized file's content, and
\* after the scan phase collected holds the artifacts of every recognized
\* file that is readable and well-formed.
C11_ScanSkipsBadFiles ==
    /\ ~ RaisedFrom({"scan"})
    /\ Scanned =>
          \A i \in 1..Len(plugins), d \in 1..Len(tree) :
              LET r == PluginDir(plugins[i], tree[d])
              IN  (Walked(tree[d].rel) /\ ~ r.raised) =>
                      \A k \in 1..Len(r.value) : InList(r.value[k], collected)

\* C13: a run on a project root that does not exist or is no directory
\* raises before any plugin's scan is invoked.
C13_InvalidRootRaises ==
    (tree = InvalidRoot) => pc \in {"new", "ready", "raised"}

\* C14: a run on an existing project directory never ends by raising, for
\* any plugin list and any content of the recognized files.
C14_RunAlwaysReturns ==
    (tree # InvalidRoot) => ~ RaisedFrom({"scan", "enrich", "normalize"})

\* the threshold the caller supplied, Absent when none
SuppliedThreshold ==
    IF engine_kw.init # Absent THEN engine_kw.init ELSE engine_kw.run

\* C18: the engine accepts a confidence threshold, and filtered holds
\* exactly the enriched artifacts whose confidence is unset or at least the
\* supplied threshold (0.35 when none is supplied).
C18_ThresholdIsTunable ==
    /\ ~ RaisedFrom({"__init__", "run"})
    /\ pc \in {"normalize", "done"} =>
          filtered = FilterByConfidence(enriched, SuppliedThreshold)

\* C19: a plugin that does not define classify, extract or normalize is
\* treated as the identity in the phases it lacks: the enrich phase never
\* raises, and it adds to enriched every collected artifact once per plugin.
C19_MissingPhasesAreIdentity ==
    /\ ~ RaisedFrom({"enrich"})
    /\ pc \in {"filter", "normalize", "done"} =>
          Len(enriched) = Len(plugins) * Len(collected)

-----------------------------------------------------------------------------
(* Specification SpecNormalize: normalize_artifacts applied to a list of  *)
(* artifacts whose metadata any plugin may have written                    *)

MaxFollowers == 2

\* what an artifact's metadata can hold under each key
MetaTaskNames == {Absent, PyStr(<<"build">>), PyInt(1)}
MetaOrigins ==
    {Absent, PyInt(5), PyStr(<<"workflow_graph">>)}
    \cup {PyStr(<<o>>) : o \in Origin}
MetaScriptNames == {Absent, PyStr(<<"dev">>)}
MetaPackageManagers == {Absent, PyStr(<<"pnpm">>)}
MetaCwds == {Absent, PyStr(<<>>), PyStr(ProjectRoot)}
MetaTags == {Absent, PyStr(<<"scope:sub">>)}

NormMetas ==
    {[NoMeta EXCEPT !.task_name = tn, !.origin = o, !.script_name = sn,
                    !.package_manager = pm, !.cwd = cwd, !.tags = tg] :
        tn \in MetaTaskNames, o \in MetaOrigins, sn \in MetaScriptNames,
        pm \in MetaPackageManagers, cwd \in MetaCwds, tg \in MetaTags}

MetaArtifact(meta) ==
    RawArtifact("task", FilePath(<<>>, "Taskfile.yml"), PyNone, meta,
                PyFloat(PluginConfidence))

\* the artifacts that follow the first: a well-formed task, and a task whose
\* name is no string
Followers ==
    {MetaArtifact([NoMeta EXCEPT !.task_name = PyStr(<<"test">>),
                                 !.origin = PyStr(<<"taskfile">>)]),
     MetaArtifact([NoMeta EXCEPT !.task_name = PyInt(1)])}

NormalizeInit ==
    /\ trace = <<>>
    /\ QuickIdle
    /\ norm_artifacts \in
          {PyList(<<MetaArtifact(m)>> \o rest) :
              m \in NormMetas,
              rest \in UNION {[1..n -> Followers] : n \in 0..MaxFollowers}}
    /\ norm_result = Pending
    /\ ExtractIdle
    /\ PdIdle
    /\ FilterIdle
    /\ CreateIdle
    /\ RunIdle
    /\ PlainEngine
    /\ CatalogIdle

CallNormalizeArtifacts ==
    /\ norm_result = Pending
    /\ norm_result' = NormalizeArtifacts(norm_artifacts.v)
    /\ UNCHANGED <<norm_artifacts, pureVars, runVars, engine_kw, history,
                   projects, wrapper, calls, trace, quickVars>>

NormalizeNext == CallNormalizeArtifacts

SpecNormalize == NormalizeInit /\ [][NormalizeNext]_vars

-----------------------------------------------------------------------------
(* Claims about normalize_artifacts (SpecNormalize) *)

NormalizeDone == norm_result # Pending
NormalizeReturned == NormalizeDone /\ ~ norm_result.raised

\* C12: normalize_artifacts never raises, and it returns the command of
\* every artifact whose own command can be built.
C12_NormalizationNeverFails ==
    NormalizeDone =>
        /\ ~ norm_result.raised
        /\ \A i \in 1..Len(norm_artifacts.v) :
              LET c == NormalizeArtifact(norm_artifacts.v[i])
              IN  ~ c.raised => InList(c.value, norm_result.value)

\* the invocation map the claim gives for a command of this origin and name
InvocationFor(origin, name, meta) ==
    LET byOrigin ==
            CASE origin = "taskfile" ->
                    [NoInvocation EXCEPT !.adapter = PyStr(<<"taskfile">>),
                                         !.task_name = PyStr(name)]
              [] origin = "package_script" ->
                    [NoInvocation EXCEPT
                        !.adapter = PyStr(<<"npm">>),
                        !.package_manager =
                            IF meta.package_manager = Absent
                            THEN PyStr(<<"npm">>)
                            ELSE meta.package_manager,
                        !.script_name =
                            IF meta.script_name = Absent
                            THEN PyStr(name)
                            ELSE meta.script_name]
              [] OTHER -> NoInvocation
    IN  IF meta.cwd # Absent /\ Truthy(meta.cwd)
        THEN [byOrigin EXCEPT !.cwd = meta.cwd]
        ELSE byOrigin

\* C16: every returned command carries exactly the invocation map of its
\* origin: adapter taskfile and the task name; adapter npm, the package
\* manager (npm when undeclared) and the script name (the name when
\* undeclared); the empty map for any other origin; plus cwd, whatever the
\* origin, when the metadata declares a (non-empty) working directory.
C16_InvocationByOrigin ==
    NormalizeReturned =>
        \A i \in 1..Len(norm_result.value) :
            norm_result.value[i].invocation =
                InvocationFor(norm_result.value[i].origin,
                              norm_result.value[i].name,
                              norm_artifacts.v[i].meta)

\* a package script with a declared manager, script name and cwd, and a
\* command of another origin with a cwd, were normalized
C16_Witness ==
    /\ NormalizeReturned
    /\ Len(norm_result.value) = 2
    /\ norm_result.value[1].origin = "package_script"
    /\ norm_result.value[1].invocation.package_manager = PyStr(<<"pnpm">>)
    /\ norm_result.value[1].invocation.script_name = PyStr(<<"dev">>)
    /\ norm_result.value[1].invocation.cwd = PyStr(ProjectRoot)
    /\ norm_result.value[2].invocation.adapter = PyStr(<<"taskfile">>)

\* the origin field of the metadata is the string tag
IsTag(meta, tag) == meta.origin = PyStr(<<tag>>)

\* the nine tags as the specification lists them
ListedTags ==
    {"taskfile", "package_script", "python", "powershell", "shell", "docker",
     "workflow_graph", "template", "other"}

\* C17: an origin field equal to one of the nine listed tags (workflow_graph
\* among them) resolves to that tag, and a missing field or any other value
\* resolves to other.
C17_ListedTagsResolve ==
    NormalizeReturned =>
        \A i \in 1..Len(norm_result.value) :
            LET meta == norm_artifacts.v[i].meta
            IN  norm_result.value[i].origin =
                    IF \E tag \in ListedTags : IsTag(meta, tag)
                    THEN CHOOSE tag \in ListedTags : IsTag(meta, tag)
                    ELSE "other"

-----------------------------------------------------------------------------
(* Specification SpecRuns: one engine is run again and again, on several  *)
(* project roots, while the files do not change                            *)

\* the roots run is called on: the example project, a project with a task
\* file, a package manifest and a subproject, a project whose task file is
\* a top-level list, and a root that does not exist
RunTrees ==
    {ExampleTree,
     <<Dir(<<>>, File(TaskfileDoc(<<"run">>)), File(PackageDoc(<<"str", "str">>)),
           FALSE),
       SubDirs[1]>>,
     <<Dir(<<>>, File(PyList(<<PyStr(<<"build">>)>>)), Absent, FALSE)>>,
     InvalidRoot}

RunsInit ==
    /\ trace = <<>>
    /\ QuickIdle
    /\ pc = "new"
    /\ plugins \in PluginLists
    /\ engine_kw = NoEngineKw
    /\ tree = <<>>
    /\ at = 0
    /\ collected = <<>>
    /\ enriched = <<>>
    /\ filtered = <<>>
    /\ result = Pending
    /\ history = <<>>
    /\ ExtractIdle
    /\ PdIdle
    /\ FilterIdle
    /\ CreateIdle
    /\ NormIdle
    /\ CatalogIdle

RunsNext ==
    \/ Construct
    \/ CallRun(RunTrees)
    \/ Scan
    \/ Enrich
    \/ Filter
    \/ Normalize
    \/ ReturnToCaller

SpecRuns == RunsInit /\ [][RunsNext]_vars

-----------------------------------------------------------------------------
(* Claims about repeated runs (SpecRuns) *)

\* the runs completed so far, the current one included once it has ended
Completed ==
    IF pc \in {"done", "raised"}
    THEN Append(history, [tree |-> tree, plugins |-> plugins,
                          result |-> result])
    ELSE history

\* C15: run leaves the engine's plugin list as it was, and every run,
\* whatever ran before it on this engine, has the outcome of a first run
\* on a fresh engine with the same plugins on the same tree; so two runs on
\* the same tree have equal raw_artifacts and commands.
C15_RunsAreIndependent ==
    \A i \in 1..Len(Completed) :
        /\ Completed[i].plugins = plugins
        /\ Completed[i].result = Run(plugins, Completed[i].tree)
        /\ \A j \in 1..Len(Completed) :
              Completed[j].tree = Completed[i].tree =>
                  Completed[j].result = Completed[i].result

\* the same root was run three times on one engine with a run on another
\* root in between or before, and commands were returned
C15_Witness ==
    /\ Len(Completed) = MaxRuns
    /\ Completed[1].tree = Completed[MaxRuns].tree
    /\ Completed[2].tree # Completed[1].tree
    /\ ~ Completed[1].result.raised
    /\ ~ Completed[2].result.raised
    /\ Len(Completed[1].result.value.commands) > 0
    /\ Len(Completed[2].result.value.commands) > 0

-----------------------------------------------------------------------------
(* backend/catalog.py: refresh_catalog and load_catalog *)

\* _get_paths(project_key): state.projects[project_key], KeyError when the
\* key is not registered
GetPaths(ps, key) ==
    IF key \in ps.keys THEN Return(key) ELSE Raise("KeyError")

\* the plugins discover_commands gives its engine
CatalogPlugins == <<"taskfile", "npm_scripts">>

\* discover_commands(project_key), for the tree under the project's dev_dir
DiscoveredCommands(r) == IF r.raised THEN r ELSE Return(r.value.commands)

DiscoverCommands(ps, key, t) ==
    IF GetPaths(ps, key).raised THEN GetPaths(ps, key)
    ELSE DiscoveredCommands(Run(CatalogPlugins, t))

\* c.model_dump(): the dict of the command's fields
ModelDump(c) == [t |-> "dict", model |-> c]

\* json.dumps(data, indent=2): the text of the array, TypeError for a value
\* JSON has no form for (in the model: a date in the raw metadata)
Serializable(d) ==
    \A key \in DOMAIN d.model.meta.raw_meta :
        d.model.meta.raw_meta[key].t # "date"

JsonDumps(data) ==
    IF \A i \in 1..Len(data) : Serializable(data[i])
    THEN Return([t |-> "text", array |-> data])
    ELSE Raise("TypeError")

\* path.write_text(text): the file a writable directory then holds
WriteText(w, text) ==
    IF w.writable
    THEN Return([w EXCEPT !.file = File(PyList(text.array))])
    ELSE Raise("OSError")

\* refresh_catalog(project_key): the dict it returns and the wrapper
\* directory it leaves
RefreshFailed(w) == [ret |-> [success |-> FALSE], wrapper |-> w]

\* line 70, or the except clause for what write_text raised
RefreshWritten(w, data, written) ==
    IF written.raised THEN RefreshFailed(w)
    ELSE [ret |-> [success |-> TRUE, count |-> Len(data)],
          wrapper |-> written.value]

\* line 69
RefreshDumped(w, data, text) ==
    IF text.raised THEN RefreshFailed(w)
    ELSE RefreshWritten(w, data, WriteText(w, text.value))

\* lines 67-70
RefreshData(w, data) == RefreshDumped(w, data, JsonDumps(data))

\* lines 66-70, or the except clause for what discover_commands raised
RefreshDiscovered(w, cmds) ==
    IF cmds.raised THEN RefreshFailed(w)
    ELSE RefreshData(w, [i \in 1..Len(cmds.value) |->
                           ModelDump(cmds.value[i])])

RefreshCatalog(ps, w, key, t) ==
    RefreshDiscovered(w, DiscoverCommands(ps, key, t))

\* load_catalog returning whatever the file parses to
LoadCatalogUntyped(ps, w, key) ==
    LET path == GetPaths(ps, key)
    IN  IF path.raised THEN Return(PyList(<<>>))
        ELSE IF w.file = Absent THEN Return(PyList(<<>>))
        ELSE IF w.file.parsed.raised THEN Return(PyList(<<>>))
        ELSE Return(w.file.parsed.value)

\* load_catalog(project_key)
LoadCatalog(ps, w, key) ==
    LET path == GetPaths(ps, key)
    IN  IF path.raised THEN Return(PyList(<<>>))
        ELSE IF w.file = Absent THEN Return(PyList(<<>>))
        ELSE IF w.file.parsed.raised THEN Return(PyList(<<>>))
        ELSE IF w.file.parsed.value.t = "list"
        THEN Return(w.file.parsed.value)
        ELSE Return(PyList(<<>>))

-----------------------------------------------------------------------------
(* Specification SpecCatalog: refresh_catalog and load_catalog are called  *)
(* in any order for a registered and an unregistered project key           *)

MaxCalls == 3

ProjectKeys == {"proj", "ghost"}

\* a task file whose one task has an unquoted date as its command
DateCmdDoc ==
    PyDict(<<[k |-> "tasks",
              v |-> PyDict(<<[k |-> PyStr(<<"build">>),
                              v |-> PyDict(<<[k |-> "cmd", v |-> PyDate]>>)]>>)]>>)

\* the project's dev_dir: the example project, a task file with a package
\* manifest, a task whose command is a date, a task file that is a
\* top-level list
CatalogTrees ==
    {ExampleTree,
     <<Dir(<<>>, File(TaskfileDoc(<<"cmd">>)), File(PackageDoc(<<"str">>)),
           FALSE)>>,
     <<Dir(<<>>, File(DateCmdDoc), Absent, FALSE)>>,
     <<Dir(<<>>, File(PyList(<<PyStr(<<"build">>)>>)), Absent, FALSE)>>}

\* the catalog file before the first call: missing, unreadable, no JSON, a
\* JSON object, an array with one entry
CatalogFiles ==
    {Absent, Unreadable, Unparsable, File(PyDict(<<>>)),
     File(PyList(<<PyStr(<<"old">>)>>))}

CatalogInit ==
    /\ trace = <<>>
    /\ QuickIdle
    /\ projects = [keys |-> {"proj"}]
    /\ wrapper \in [writable : BOOLEAN, file : CatalogFiles]
    /\ calls = <<>>
    /\ tree \in CatalogTrees
    /\ plugins = <<>> /\ pc = "idle" /\ at = 0
    /\ collected = <<>> /\ enriched = <<>> /\ filtered = <<>> /\ result = Idle
    /\ ExtractIdle
    /\ PdIdle
    /\ FilterIdle
    /\ CreateIdle
    /\ NormIdle
    /\ PlainEngine

CallRefreshCatalog ==
    /\ Len(calls) < MaxCalls
    /\ \E key \in ProjectKeys :
          LET out == RefreshCatalog(projects, wrapper, key, tree)
          IN  /\ wrapper' = out.wrapper
              /\ calls' = Append(calls, [op |-> "refresh", key |-> key,
                                         before |-> wrapper,
                                         result |-> out.ret])
    /\ UNCHANGED <<projects, pureVars, runVars, engine_kw, history,
                   norm_artifacts, norm_result, trace, quickVars>>

CallLoadCatalog ==
    /\ Len(calls) < MaxCalls
    /\ \E key \in ProjectKeys :
          calls' = Append(calls, [op |-> "load", key |-> key,
                                  before |-> wrapper,
                                  result |-> LoadCatalog(projects, wrapper, key)])
    /\ UNCHANGED <<projects, wrapper, pureVars, runVars, engine_kw, history,
                   norm_artifacts, norm_result, trace, quickVars>>

CatalogNext == CallRefreshCatalog \/ CallLoadCatalog

SpecCatalog == CatalogInit /\ [][CatalogNext]_vars

-----------------------------------------------------------------------------
(* Claims about the catalog (SpecCatalog) *)

IsLoad(i) == calls[i].op = "load"
Refreshed(j) == calls[j].op = "refresh" /\ calls[j].result.success

\* the catalog file the call found is missing, unreadable, no JSON, or JSON
\* that is no array
NoArray(file) ==
    \/ file = Absent
    \/ file.parsed.raised
    \/ file.parsed.value.t # "list"

\* call j is the last successful refresh before call i
LastRefreshBefore(j, i) ==
    /\ j < i
    /\ Refreshed(j)
    /\ \A k \in (j + 1)..(i - 1) : ~ Refreshed(k)

\* C20: load_catalog never raises; it returns the empty list for an
\* unregistered key and for a catalog file that is missing, unreadable, no
\* JSON or no array; and after a successful refresh_catalog it returns an
\* array with as many entries as the count the refresh reported.
C20_LoadNeverFails ==
    \A i \in 1..Len(calls) :
        IsLoad(i) =>
            /\ ~ calls[i].result.raised
            /\ calls[i].result.value.t = "list"
            /\ (calls[i].key \notin projects.keys \/ NoArray(calls[i].before.file))
                  => calls[i].result.value = PyList(<<>>)
            /\ \A j \in 1..Len(calls) :
                  (LastRefreshBefore(j, i) /\ calls[i].key \in projects.keys)
                      => Len(calls[i].result.value.v) = calls[j].result.count

\* a load found a JSON object and returned [], a refresh then reported a
\* positive count, and the next load returned that many entries
C20_Witness ==
    /\ Len(calls) = 3
    /\ IsLoad(1)
    /\ calls[1].key = "proj"
    /\ calls[1].before.file = File(PyDict(<<>>))
    /\ calls[1].result.value = PyList(<<>>)
    /\ Refreshed(2)
    /\ calls[2].result.count > 0
    /\ IsLoad(3)
    /\ calls[3].key = "proj"
    /\ Len(calls[3].result.value.v) = calls[2].result.count

-----------------------------------------------------------------------------
(* backend/quick_commands.py: the stored quick commands *)

\* A QuickCommand is [id, command]: the id the store compares, and the
\* command line standing for the fields the store only carries along.
\* cmd.model_dump() is the dict of the fields and QuickCommand(**item) the
\* command of such a dict.
QuickModelDump(cmd) == [t |-> "dict", model |-> cmd]
QuickCommandOf(item) == item.model

\* ensure_quick_commands_file(): a missing file is created holding "[]"
EnsureQuickCommandsFile(file) ==
    IF file = Absent THEN File(PyList(<<>>)) ELSE file

\* load_quick_commands(): the commands of the file's array, [] for a file
\* that holds no JSON
LoadQuickCommands(file) ==
    IF EnsureQuickCommandsFile(file).parsed.raised THEN <<>>
    ELSE [i \in 1..Len(EnsureQuickCommandsFile(file).parsed.value.v) |->
             QuickCommandOf(EnsureQuickCommandsFile(file).parsed.value.v[i])]

\* save_quick_commands(commands): the file it writes
SaveQuickCommands(commands) ==
    File(PyList([i \in 1..Len(commands) |-> QuickModelDump(commands[i])]))

\* any(cmd.id == command_id for cmd in commands)
HasId(commands, id) == \E i \in 1..Len(commands) : commands[i].id = id

\* an operation's outcome: what it returns and the file it leaves
Outcome(ret, file) == [ret |-> ret, file |-> file]

\* add_quick_command that appends without looking for the id
AddQuickCommandUnchecked(file, command) ==
    Outcome(TRUE, SaveQuickCommands(Append(LoadQuickCommands(file), command)))

\* add_quick_command(command)
AddQuickCommand(file, command) ==
    IF HasId(LoadQuickCommands(file), command.id)
    THEN Outcome(FALSE, EnsureQuickCommandsFile(file))
    ELSE Outcome(TRUE,
                 SaveQuickCommands(Append(LoadQuickCommands(file), command)))

\* [cmd for cmd in commands if cmd.id != command_id]
RECURSIVE WithoutId(_, _)
WithoutId(commands, id) ==
    IF Len(commands) = 0 THEN <<>>
    ELSE IF Head(commands).id = id THEN WithoutId(Tail(commands), id)
    ELSE <<Head(commands)>> \o WithoutId(Tail(commands), id)

\* remove_quick_command(command_id)
RemoveQuickCommand(file, id) ==
    IF Len(WithoutId(LoadQuickCommands(file), id)) < Len(LoadQuickCommands(file))
    THEN Outcome(TRUE, SaveQuickCommands(WithoutId(LoadQuickCommands(file), id)))
    ELSE Outcome(FALSE, EnsureQuickCommandsFile(file))

\* the first index whose command has the id (the loops of update and get
\* stop there)
FirstWithId(commands, id) ==
    CHOOSE i \in 1..Len(commands) :
        /\ commands[i].id = id
        /\ \A j \in 1..(i - 1) : commands[j].id # id

\* update_quick_command that drops the stored command and appends the new one
UpdateQuickCommandAtEnd(file, command) ==
    IF HasId(LoadQuickCommands(file), command.id)
    THEN Outcome(TRUE,
                 SaveQuickCommands(
                     Append(WithoutId(LoadQuickCommands(file), command.id),
                            command)))
    ELSE Outcome(FALSE, EnsureQuickCommandsFile(file))

\* update_quick_command(command)
UpdateQuickCommand(file, command) ==
    IF HasId(LoadQuickCommands(file), command.id)
    THEN Outcome(TRUE,
                 SaveQuickCommands(
                     [LoadQuickCommands(file) EXCEPT
                         ![FirstWithId(LoadQuickCommands(file), command.id)] =
                             command]))
    ELSE Outcome(FALSE, EnsureQuickCommandsFile(file))

\* get_quick_command(command_id)
GetQuickCommand(file, id) ==
    IF HasId(LoadQuickCommands(file), id)
    THEN Outcome(LoadQuickCommands(file)[FirstWithId(LoadQuickCommands(file), id)],
                 EnsureQuickCommandsFile(file))
    ELSE Outcome(PyNone, EnsureQuickCommandsFile(file))

-----------------------------------------------------------------------------
(* Specification SpecQuick: the four quick-command operations are called   *)
(* in any order on a store that starts without commands                    *)

MaxQuickCalls == 4

QuickIds == {"q1", "q2"}
QuickLines == {"echo 1", "echo 2"}
QuickCommands == [id : QuickIds, command : QuickLines]

\* the file before the first call: missing, holding "[]", or holding text
\* that is no JSON
EmptyStores == {Absent, File(PyList(<<>>)), Unparsable}

QuickInit ==
    /\ trace = <<>>
    /\ quick_file \in EmptyStores
    /\ quick_calls = <<>>
    /\ ExtractIdle
    /\ PdIdle
    /\ FilterIdle
    /\ CreateIdle
    /\ RunIdle
    /\ MoreIdle

\* the call is made: the file changes and the call is recorded
Called(op, id, given, out) ==
    /\ Len(quick_calls) < MaxQuickCalls
    /\ quick_file' = out.file
    /\ quick_calls' = Append(quick_calls,
                             [op |-> op, id |-> id, given |-> given,
                              ret |-> out.ret, before |-> quick_file])
    /\ UNCHANGED <<pureVars, runVars, moreVars, trace>>

CallAddQuickCommand ==
    \E c \in QuickCommands :
        Called("add", c.id, c, AddQuickCommand(quick_file, c))

CallRemoveQuickCommand ==
    \E id \in QuickIds :
        Called("remove", id, PyNone, RemoveQuickCommand(quick_file, id))

CallUpdateQuickCommand ==
    \E c \in QuickCommands :
        Called("update", c.id, c, UpdateQuickCommand(quick_file, c))

CallGetQuickCommand ==
    \E id \in QuickIds :
        Called("get", id, PyNone, GetQuickCommand(quick_file, id))

QuickNext ==
    \/ CallAddQuickCommand
    \/ CallRemoveQuickCommand
    \/ CallUpdateQuickCommand
    \/ CallGetQuickCommand

SpecQuick == QuickInit /\ [][QuickNext]_vars

-----------------------------------------------------------------------------
(* Claims about the quick commands (SpecQuick) *)

\* the file call i left: the file the next call found, or the present file
FileAfter(i) ==
    IF i < Len(quick_calls) THEN quick_calls[i + 1].before ELSE quick_file

StoredBefore(i) == LoadQuickCommands(quick_calls[i].before)
StoredAfter(i) == LoadQuickCommands(FileAfter(i))

\* call i is an add of a stored id, or a remove or update of an id not stored
MustFail(i) ==
    IF quick_calls[i].op = "add"
    THEN HasId(StoredBefore(i), quick_calls[i].id)
    ELSE ~ HasId(StoredBefore(i), quick_calls[i].id)

\* what a get of call i's id returns once call i has succeeded
Reflected(i) ==
    IF quick_calls[i].op = "remove" THEN PyNone ELSE quick_calls[i].given

\* C21: add_quick_command with a stored id, and remove_quick_command or
\* update_quick_command with an id that is not stored, return False and
\* leave the stored list as it was; every other add, remove or update
\* returns True, and a get_quick_command of that id called next returns the
\* added or updated command, or None after a remove.
C21_FailureLeavesStore ==
    \A i \in 1..Len(quick_calls) :
        quick_calls[i].op # "get" =>
            IF MustFail(i)
            THEN /\ quick_calls[i].ret = FALSE
                 /\ StoredAfter(i) = StoredBefore(i)
            ELSE /\ quick_calls[i].ret = TRUE
                 /\ (/\ i < Len(quick_calls)
                     /\ quick_calls[i + 1].op = "get"
                     /\ quick_calls[i + 1].id = quick_calls[i].id)
                        => quick_calls[i + 1].ret = Reflected(i)

\* an add succeeded, the same id was added again with another command line
\* and refused, an update of the id not stored was refused, and the get that
\* followed still returned the command first added
C21_Witness ==
    /\ Len(quick_calls) = 4
    /\ quick_calls[1].op = "add" /\ quick_calls[1].ret = TRUE
    /\ quick_calls[2].op = "add" /\ quick_calls[2].ret = FALSE
    /\ quick_calls[2].id = quick_calls[1].id
    /\ quick_calls[2].given # quick_calls[1].given
    /\ quick_calls[3].op = "update" /\ quick_calls[3].ret = FALSE
    /\ quick_calls[4].op = "get" /\ quick_calls[4].ret = quick_calls[1].given

\* the commands added and not since removed after the first n calls, in the
\* order they were added, each as its latest update left it
RECURSIVE AddedNotRemoved(_)
AddedNotRemoved(n) ==
    IF n = 0 THEN <<>>
    ELSE LET call == quick_calls[n]
             sofar == AddedNotRemoved(n - 1)
         IN  IF call.op = "add" /\ ~ HasId(sofar, call.id)
             THEN Append(sofar, call.given)
             ELSE IF call.op = "remove"
             THEN SelectSeq(sofar, LAMBDA c : c.id # call.id)
             ELSE IF call.op = "update"
             THEN [k \in 1..Len(sofar) |->
                      IF sofar[k].id = call.id THEN call.given ELSE sofar[k]]
             ELSE sofar

\* C29: after any sequence of add, remove and update calls on a store that
\* started empty, the stored commands have pairwise distinct ids and are
\* exactly the commands added and not since removed, in the order of their
\* addition, each with the content of its latest successful update.
C29_StoreIsAddedNotRemoved ==
    /\ \A i, j \in 1..Len(LoadQuickCommands(quick_file)) :
          LoadQuickCommands(quick_file)[i].id =
              LoadQuickCommands(quick_file)[j].id => i = j
    /\ LoadQuickCommands(quick_file) = AddedNotRemoved(Len(quick_calls))

\* two commands were added, the first was updated to another command line
\* and the store holds both, the updated one still first
C29_Witness ==
    /\ Len(quick_calls) >= 3
    /\ quick_calls[1].op = "add" /\ quick_calls[2].op = "add"
    /\ quick_calls[3].op = "update" /\ quick_calls[3].ret = TRUE
    /\ quick_calls[3].id = quick_calls[1].id
    /\ quick_calls[3].given # quick_calls[1].given
    /\ Len(LoadQuickCommands(quick_file)) = 2
    /\ LoadQuickCommands(quick_file)[1] = quick_calls[3].given

-----------------------------------------------------------------------------
(* Specification SpecPhases: one run of an engine whose plugin list may    *)
(* hold a plugin that discards, re-scores and reorders artifacts           *)

PhasePluginLists ==
    {<<"taskfile", "npm_scripts">>,
     <<"taskfile", "npm_scripts", "selective">>,
     <<"selective", "npm_scripts", "taskfile">>}

\* the trees of a root and its subproject
PhaseTrees == {t \in TreeInputs : Len(t) = 2}

PhasesInit ==
    /\ trace = <<>>
    /\ QuickIdle
    /\ tree \in PhaseTrees
    /\ plugins \in PhasePluginLists
    /\ pc = "scan"
    /\ at = 1
    /\ collected = <<>>
    /\ enriched = <<>>
    /\ filtered = <<>>
    /\ result = Pending
    /\ ExtractIdle
    /\ PdIdle
    /\ FilterIdle
    /\ CreateIdle
    /\ MoreIdle

PhasesNext == Scan \/ Enrich \/ Filter \/ Normalize

SpecPhases == PhasesInit /\ [][PhasesNext]_vars

-----------------------------------------------------------------------------
(* Claims about the phases of a run (SpecPhases) *)

NotNone(x) == x # PyNone

\* classify applied to every collected artifact, in collected order
Classified(plugin) ==
    [i \in 1..Len(collected) |-> PluginClassify(plugin, collected[i]).value]

\* extract applied to the results of classify that are not None
Extracted(plugin) ==
    [i \in 1..Len(SelectSeq(Classified(plugin), NotNone)) |->
        PluginExtract(plugin, SelectSeq(Classified(plugin), NotNone)[i]).value]

\* the artifacts neither step returned None for
Interim(plugin) == SelectSeq(Extracted(plugin), NotNone)

\* the normalized interim lists of the first n plugins, one after the other
RECURSIVE EnrichedThrough(_)
EnrichedThrough(n) ==
    IF n = 0 THEN <<>>
    ELSE EnrichedThrough(n - 1) \o
         PluginNormalize(plugins[n], Interim(plugins[n])).value

\* the plugins whose pass of the classify/extract phase is over
PluginsEnriched ==
    IF pc = "scan" THEN 0 ELSE IF pc = "enrich" THEN at - 1 ELSE Len(plugins)

RECURSIVE Repeated(_, _)
Repeated(list, n) == IF n = 0 THEN <<>> ELSE list \o Repeated(list, n - 1)

BuiltInOnly == \A i \in 1..Len(plugins) : plugins[i] # "selective"

\* C22: the classify/extract phase takes the plugins in list order and, for
\* each, every artifact of the whole collected list in collected order:
\* extract is applied to the result of classify unless that is None, the
\* artifact enters the plugin's interim list unless either step gave None,
\* and the plugin's normalize of the interim list is appended to enriched.
\* With P plugins whose three methods are identities, enriched is the
\* collected list P times over.
C22_EnrichPhase ==
    /\ enriched = EnrichedThrough(PluginsEnriched)
    /\ (BuiltInOnly /\ PluginsEnriched = Len(plugins)) =>
          enriched = Repeated(collected, Len(plugins))

\* the selective plugin ran last of three on a tree with tasks and scripts:
\* it dropped some of the collected artifacts, and the two plugins before it
\* each passed the whole collected list on
C22_Witness ==
    /\ pc = "filter"
    /\ plugins = <<"taskfile", "npm_scripts", "selective">>
    /\ \E i \in 1..Len(collected) : collected[i].type = "package_script"
    /\ \E i \in 1..Len(collected) :
          collected[i].meta.task_name = PyStr(<<"test">>)
    /\ Len(Interim("selective")) > 1
    /\ Len(enriched) = 2 * Len(collected) + Len(Interim("selective"))
    /\ enriched[Len(enriched)].type = "command"
    /\ enriched[Len(enriched)].confidence # PyFloat(PluginConfidence)

\* the steps of a whole run: every plugin's scan, every plugin's
\* classify/extract/normalize, the filter, the global normalization
WholeRun ==
    [i \in 1..(2 * Len(plugins) + 2) |->
        IF i <= Len(plugins) THEN Step("scan", i)
        ELSE IF i <= 2 * Len(plugins) THEN Step("enrich", i - Len(plugins))
        ELSE IF i = 2 * Len(plugins) + 1 THEN Step("filter", 0)
        ELSE Step("normalize", 0)]

\* what the first n plugins emit, in plugin-list order
RECURSIVE Emitted(_)
Emitted(n) ==
    IF n = 0 THEN <<>>
    ELSE Emitted(n - 1) \o PluginScan(plugins[n], tree).value

\* C23: in one run every plugin's scan is invoked exactly once, in list
\* order, and all scans are over before the first classify or extract; the
\* collected list is what the plugins emitted, in plugin-list order and in
\* each plugin's emission order; the filter runs once after every plugin's
\* classify/extract/normalize, and the global normalization once after it.
C23_PhaseOrder ==
    /\ Len(trace) <= Len(WholeRun)
    /\ trace = SubSeq(WholeRun, 1, Len(trace))
    /\ pc = "done" => trace = WholeRun
    /\ collected = Emitted(IF pc = "scan" THEN at - 1 ELSE Len(plugins))

\* a run of three plugins is over and two of them emitted artifacts
C23_Witness ==
    /\ pc = "done"
    /\ Len(plugins) = 3
    /\ Len(trace) = 8
    /\ \E i, j \in 1..Len(collected) :
          /\ i < j
          /\ collected[i].type = "package_script"
          /\ collected[j].type = "task"

\* C24: raw_artifacts of a returned DiscoveryResult is the enriched list
\* without the artifacts whose confidence is below 0.35 (every element has
\* confidence None or at least 0.35), and commands has the same length:
\* commands[i] is the normalization of raw_artifacts[i] and its source_path
\* is that artifact's path.
C24_CommandPerRawArtifact ==
    Returned =>
        /\ RawArtifacts =
              SelectSeq(enriched,
                        LAMBDA a : a.confidence = PyNone \/ a.confidence.v >= 35)
        /\ \A i \in 1..Len(RawArtifacts) :
              \/ RawArtifacts[i].confidence = PyNone
              \/ RawArtifacts[i].confidence.v >= 35
        /\ Len(Commands) = Len(RawArtifacts)
        /\ \A i \in 1..Len(Commands) :
              /\ Return(Commands[i]) = NormalizeArtifact(RawArtifacts[i])
              /\ Commands[i].source_path = RawArtifacts[i].path

\* a result was returned whose raw_artifacts lack an enriched artifact of
\* low confidence and hold an unscored one and the same artifact twice
C24_Witness ==
    /\ Returned
    /\ Len(RawArtifacts) < Len(enriched)
    /\ \E i \in 1..Len(RawArtifacts) : RawArtifacts[i].confidence = PyNone
    /\ \E i, j \in 1..Len(RawArtifacts) :
          i # j /\ RawArtifacts[i] = RawArtifacts[j]
    /\ Len(Commands) > 3

-----------------------------------------------------------------------------
(* Specification SpecScan: one run on a tree with nested and vendor        *)
(* directories, whose root manifest varies in its packageManager field and *)
(* lockfiles                                                               *)

\* the manifest's packageManager value: none, pnpm, npm, another tool, or
\* a value that is no string
PmFields ==
    {Absent, PyStr(<<"pnpm", "@", "8">>), PyStr(<<"npm", "@", "9">>),
     PyStr(<<"yarn", "@", "1">>), PyInt(8)}

DevScript == [k |-> PyStr(<<"dev">>), v |-> PyStr(EchoBuilding)]

PmPackageDoc(pm) ==
    IF pm = Absent
    THEN PyDict(<<[k |-> "scripts", v |-> PyDict(<<DevScript>>)]>>)
    ELSE PyDict(<<[k |-> "packageManager", v |-> pm],
                  [k |-> "scripts", v |-> PyDict(<<DevScript>>)]>>)

ScanDir(rel, tf, pm, pnpm, lock) ==
    [rel |-> rel, taskfile |-> tf, package |-> File(PmPackageDoc(pm)),
     pnpm_lock |-> pnpm, package_lock |-> lock]

OneTask == File(TaskfileDoc(<<"cmd">>))

\* below the root, in walk order: a subproject, a package inside it, and
\* directories with the pruned names at depth one and two, each with a
\* task file and a manifest
NestedDirs ==
    <<ScanDir(<<"sub">>, OneTask, Absent, TRUE, TRUE),
      ScanDir(<<"sub", "p">>, File(TaskfileDoc(<<"cmd", "run">>)),
              PyStr(<<"npm", "@", "9">>), TRUE, FALSE),
      ScanDir(<<"sub", "dist">>, OneTask, Absent, FALSE, FALSE),
      ScanDir(<<"node_modules">>, OneTask, Absent, FALSE, FALSE),
      ScanDir(<<"node_modules", "p">>, OneTask, Absent, FALSE, TRUE),
      ScanDir(<<".git">>, OneTask, Absent, FALSE, FALSE),
      ScanDir(<<".venv">>, OneTask, Absent, FALSE, FALSE),
      ScanDir(<<"build">>, OneTask, Absent, FALSE, FALSE)>>

ScanTrees ==
    {<<ScanDir(<<>>, tf, pm, pnpm, lock)>> \o SubSeq(NestedDirs, 1, n) :
        tf \in {Absent, OneTask, File(TaskfileDoc(<<"run", "short">>))},
        pm \in PmFields, pnpm \in BOOLEAN, lock \in BOOLEAN,
        n \in 0..Len(NestedDirs)}

ScanInit ==
    /\ trace = <<>>
    /\ QuickIdle
    /\ tree \in ScanTrees
    /\ plugins \in PluginLists
    /\ pc = "scan"
    /\ at = 1
    /\ collected = <<>>
    /\ enriched = <<>>
    /\ filtered = <<>>
    /\ result = Pending
    /\ ExtractIdle
    /\ PdIdle
    /\ FilterIdle
    /\ CreateIdle
    /\ MoreIdle

ScanNext == Scan \/ Enrich \/ Filter \/ Normalize

SpecScan == ScanInit /\ [][ScanNext]_vars

-----------------------------------------------------------------------------
(* Claims about the scans of the built-in plugins (SpecScan, Spec) *)

\* every plugin of the list has scanned
ScansOver == pc # "scan"

\* the artifacts a plugin emitted, by their type
OfType(type) == SelectSeq(collected, LAMBDA a : a.type = type)

\* the directory a file path lies in, and that directory relative to the
\* project root
Containing(path) == SubSeq(path, 1, Len(path) - 2)
RelativeToRoot(dir) == SubSeq(dir, Len(ProjectRoot) + 2, Len(dir))

\* the task's raw command: its cmd entry, or else its run entry
RawCommand(spec) ==
    IF Truthy(DictGet(spec, "cmd", PyNone)) THEN DictGet(spec, "cmd", PyNone)
    ELSE DictGet(spec, "run", PyNone)

DirOf(a) ==
    CHOOSE i \in 1..Len(tree) : DirPath(tree[i].rel) = Containing(a.path)

\* the manifest's packageManager value names the tool
Names(dir, tool) ==
    /\ DictGet(dir.package.parsed.value, "packageManager", PyNone).t = "str"
    /\ Head(DictGet(dir.package.parsed.value, "packageManager", PyNone).v) = tool

Recorded(a) == a.meta.package_manager

\* C26: the package manager recorded for a script is the manifest's
\* packageManager field when that names npm or pnpm, whatever lockfiles
\* exist; otherwise pnpm if pnpm-lock.yaml is present, otherwise npm if
\* package-lock.json is present, otherwise npm.  It is always npm or pnpm.
C26_PackageManagerPrecedence ==
    ScansOver =>
        \A i \in 1..Len(OfType("package_script")) :
            LET a == OfType("package_script")[i]
                dir == tree[DirOf(a)]
            IN  /\ Recorded(a) \in {PyStr(<<"npm">>), PyStr(<<"pnpm">>)}
                /\ Names(dir, "pnpm") => Recorded(a) = PyStr(<<"pnpm">>)
                /\ Names(dir, "npm") => Recorded(a) = PyStr(<<"npm">>)
                /\ (~ Names(dir, "pnpm") /\ ~ Names(dir, "npm")) =>
                      Recorded(a) = IF dir.pnpm_lock THEN PyStr(<<"pnpm">>)
                                    ELSE PyStr(<<"npm">>)

\* scripts were recorded with npm from a manifest that names npm beside a
\* pnpm lockfile, and with pnpm from a manifest that names another tool
\* beside both lockfiles
C26_Witness ==
    /\ ScansOver
    /\ \E i \in 1..Len(OfType("package_script")) :
          LET a == OfType("package_script")[i]
          IN  /\ Names(tree[DirOf(a)], "npm")
              /\ tree[DirOf(a)].pnpm_lock
              /\ Recorded(a) = PyStr(<<"npm">>)
    /\ \E i \in 1..Len(OfType("package_script")) :
          LET a == OfType("package_script")[i]
          IN  /\ DictGet(tree[DirOf(a)].package.parsed.value,
                         "packageManager", PyNone) = PyStr(<<"yarn", "@", "1">>)
              /\ tree[DirOf(a)].pnpm_lock
              /\ tree[DirOf(a)].package_lock
              /\ Recorded(a) = PyStr(<<"pnpm">>)

\* C27: every artifact the scan of a built-in plugin emits has confidence
\* 0.6, whatever the file holds, and so the confidence filter of a run,
\* with its threshold 0.35, removes none of them.
C27_FlatConfidence ==
    /\ \A i \in 1..Len(collected) : collected[i].confidence = PyFloat(60)
    /\ pc \in {"normalize", "done"} => filtered = enriched
    /\ Returned =>
          \A i \in 1..Len(collected) :
              \E j \in 1..Len(RawArtifacts) : RawArtifacts[j] = collected[i]

\* a run returned artifacts of a task without description and of a script
\* whose command is no string
C27_Witness ==
    /\ Returned
    /\ \E j \in 1..Len(RawArtifacts) :
          /\ RawArtifacts[j].type = "task"
          /\ ~ Truthy(RawArtifacts[j].meta.description)
    /\ \E j \in 1..Len(RawArtifacts) :
          /\ RawArtifacts[j].type = "package_script"
          /\ RawArtifacts[j].content_snippet = PyNone

\* the directory names the scans prune
PrunedNames == {"node_modules", ".git", ".venv", "dist", "build"}

UnderPruned(rel) == \E i \in 1..Len(rel) : rel[i] \in PrunedNames

\* the file a plugin recognizes, as the tree's directory holds it
Recognized(plugin, dir) ==
    IF plugin = "taskfile" THEN dir.taskfile ELSE dir.package

Filename(plugin) ==
    IF plugin = "taskfile" THEN "Taskfile.yml" ELSE "package.json"

\* C28: no scan of a built-in plugin emits an artifact from a recognized
\* file under a directory named node_modules, .git, .venv, dist or build at
\* any depth below the project root, while the recognized files of every
\* other directory, at any depth, are scanned.
C28_PrunedDirectories ==
    ScansOver =>
        /\ \A i \in 1..Len(collected) :
              \A k \in (Len(ProjectRoot) + 1)..(Len(collected[i].path) - 1) :
                  collected[i].path[k] \notin PrunedNames
        /\ \A d \in 1..Len(tree) : \A n \in 1..Len(plugins) :
              (/\ ~ UnderPruned(tree[d].rel)
               /\ Recognized(plugins[n], tree[d]) # Absent) =>
                  \E i \in 1..Len(collected) :
                      collected[i].path =
                          FilePath(tree[d].rel, Filename(plugins[n]))

\* both plugins scanned the whole tree: sub/p gave artifacts, and
\* sub/dist, node_modules/p and build hold recognized files
C28_Witness ==
    /\ ScansOver
    /\ Len(plugins) = 2
    /\ Len(tree) = Len(NestedDirs) + 1
    /\ \E i \in 1..Len(collected) :
          collected[i].path = FilePath(<<"sub", "p">>, "package.json")
    /\ \E i \in 1..Len(collected) :
          collected[i].path = FilePath(<<"sub", "p">>, "Taskfile.yml")

-----------------------------------------------------------------------------
(* Parameter inference and ParameterDefinition validation (SpecExtract) *)

\* the tokens whose derived name is empty
NamelessTokens ==
    {<<"-", "-">>, <<"-", "-", "=">>, <<"-", "-", "=", "a">>,
     <<"-", "-", "=", "b">>, <<"<", ">">>}

\* the command is made of such tokens only
OnlyNameless ==
    /\ Len(CmdTokens) > 0
    /\ \A i \in 1..Len(CmdTokens) : CmdTokens[i] \in NamelessTokens

\* C30: for every string argument _extract_parameters returns without
\* raising, so no ParameterDefinition it builds fails validation: every
\* returned parameter has a non-empty name, a required parameter has no
\* default, and the tokens '--', '--=value' and '<>', whose derived name
\* would be empty, give no parameter.
C30_InferenceNeverTripsValidation ==
    (ExtractDone /\ raw_cmd.t = "str") =>
        /\ ~ params.raised
        /\ \A k \in 1..Len(params.value) :
              /\ params.value[k].name.t = "str"
              /\ Len(params.value[k].name.v) >= 1
              /\ params.value[k].required = PyBool(TRUE) =>
                    params.value[k].default = PyNone
        /\ OnlyNameless => params.value = <<>>
        /\ Len(params.value) <=
              Cardinality({i \in 1..Len(CmdTokens) :
                              CmdTokens[i] \notin NamelessTokens})

\* a command with the token '--=b' and a positional returned only the
\* required parameter of the positional
C30_Witness ==
    /\ ExtractDone
    /\ raw_cmd.t = "str"
    /\ \E i \in 1..Len(CmdTokens) : CmdTokens[i] = <<"-", "-", "=", "b">>
    /\ ~ params.raised
    /\ Len(params.value) = 1
    /\ params.value[1].required = PyBool(TRUE)
    /\ params.value[1].default = PyNone

=============================================================================
